---------------------------- MODULE Spec2Model ----------------------------
(***************************************************************************)
(* A model of the Teem python/cffi binding layer:                          *)
(*   - the biff call wrapper (_biffer) and the diagnostic accumulator,     *)
(*   - the namespace object that exports the native symbols,               *)
(*   - the library dependency catalog (_tlibs, tlib_depends),              *)
(*   - the conditional filter of headers (ScanHdr.scan),                   *)
(*   - the build-time tools: header reduction (build_teem.py), the Tffi    *)
(*     build object and the biff annotation scanner (gen_biffdata.py).     *)
(***************************************************************************)
EXTENDS Integers, Sequences, FiniteSets, TLC

VARIABLES
    th,        \* per thread of control: the frame of wrapper(*args)
    acc,       \* the native biff accumulator: error-domain key -> pending text
    ns,        \* the namespace object (_teem_Module instance)
    dp,        \* the frame of one tlib_depends / tlib_all call
    sc,        \* one ScanHdr object and the position of its scan()
    hd,        \* build_teem.py: the header under reduction and cdef_teem.h
    tf,        \* one Tffi object
    an         \* gen_biffdata.py: the annotation scan of one library

vars == <<th, acc, ns, dp, sc, hd, tf, an>>

-----------------------------------------------------------------------------
(* Python values that cross the native boundary.  An int is [t: int, v],   *)
(* a cdata pointer is [t: ptr, v] with v = 0 for NULL, None is [t: none].  *)

PyInt(n) == [t |-> "int", v |-> n]
PyPtr(a) == [t |-> "ptr", v |-> a]
PyNULL == PyPtr(0)
PyNone == [t |-> "none", v |-> 0]
PyTrue == [t |-> "bool", v |-> 1]
PyFalse == [t |-> "bool", v |-> 0]

\* bool(x) of an int or of a cdata pointer
Truthy(x) == x.t # "none" /\ x.v # 0

-----------------------------------------------------------------------------
(* teem.py: string(), the predicates of _BIFF_DICT and _BIFF_DICT itself   *)

\* bytes.decode('ascii') succeeds iff every byte is below 128
AsciiOk(bstr) == \A i \in 1..Len(bstr) : bstr[i] < 128

\* string(bstr) = ffi.string(bstr).decode('ascii'): the text, one code point
\* per byte, or a UnicodeDecodeError
string(bstr) ==
    IF AsciiOk(bstr) THEN [ok |-> TRUE, s |-> bstr]
    ELSE [ok |-> FALSE, s |-> <<>>]

\* str.isspace for the code points below 128
IsSpace(c) == c \in (9..13) \cup (28..32)

RECURSIVE rstrip(_)
rstrip(s) ==
    IF s = <<>> THEN s
    ELSE IF IsSpace(s[Len(s)]) THEN rstrip(SubSeq(s, 1, Len(s) - 1))
    ELSE s

_equals_one(val) == val.t = "int" /\ val.v = 1

_equals_null(val) == val = PyNULL

\* (lambda rv: 0 == rv)
_equals_zero(val) == val.t = "int" /\ val.v = 0

\* the rows of _BIFF_DICT the model keeps: (rvtf, mubi, bkey, fnln)
_BIFF_DICT ==
    [f \in {"nrrdArrayCompare", "nrrdSameSize", "gageContextCopy"} |->
        CASE f = "nrrdArrayCompare" ->
                [rvtf |-> "_equals_one", mubi |-> 0, bkey |-> "nrrd",
                 fnln |-> "nrrd/accessors.c:515"]
          [] f = "nrrdSameSize" ->
                [rvtf |-> "_equals_zero", mubi |-> 3, bkey |-> "nrrd",
                 fnln |-> "nrrd/simple.c:1133"]
          [] f = "gageContextCopy" ->
                [rvtf |-> "_equals_null", mubi |-> 0, bkey |-> "gage",
                 fnln |-> "gage/ctx.c:86"]]

\* rvtf(ret_val) for the predicate named by a row
rvtf(name, val) ==
    CASE name = "_equals_one" -> _equals_one(val)
      [] name = "_equals_null" -> _equals_null(val)
      [] name = "_equals_zero" -> _equals_zero(val)

BiffKeys == {"nrrd", "gage"}

-----------------------------------------------------------------------------
(* The native side.  The C library is not part of the python sources: a    *)
(* biff-using function that reports failure leaves its message under its   *)
(* key, and biffGetDone(key) hands the pending text over and clears it.    *)

Threads == {"t1", "t2"}

\* longest pending text under a key to which an unwrapped call still adds
MaxPending == 1

\* argument tuples a caller passes
ArgLists ==
    { <<>>,
      <<PyInt(1), PyInt(1), PyInt(0)>>,
      <<PyInt(0), PyInt(0), PyInt(1)>> }

\* values a native function returns
RetVals == {PyInt(0), PyInt(1), PyNULL}

\* messages the native side writes: "a", "b\n" and the two bytes of U+00E9
Msgs == { <<97>>, <<98, 10>>, <<195, 169>> }

\* the native function reports through biff: its error value comes back and
\* its useBiff argument (when it has one) is set
NativeUsesBiff(f, args, ret) ==
    /\ f \in DOMAIN _BIFF_DICT
    /\ rvtf(_BIFF_DICT[f].rvtf, ret)
    /\ \/ _BIFF_DICT[f].mubi = 0
       \/ /\ _BIFF_DICT[f].mubi <= Len(args)
          /\ Truthy(args[_BIFF_DICT[f].mubi])

\* biffAdd(key, msg)
biffAdd(a, key, msg) == [a EXCEPT ![key] = @ \o msg]

\* biffGetDone(key): the text handed over, and the accumulator afterwards
biffGetDone(a, key) == [err |-> a[key], acc |-> [a EXCEPT ![key] = <<>>]]

-----------------------------------------------------------------------------
(* teem.py: _biffer and the wrapper it returns                             *)

NoExc == [kind |-> "none", ret_val |-> PyNone, func_name |-> "", fnln |-> "",
          estr |-> <<>>]

NoBlob == [rvtf |-> "", mubi |-> 0, bkey |-> "", fnln |-> ""]

\* _biffer(func, func_name, blob): the closure it returns
_biffer(func, func_name, blob) ==
    [kind |-> "wrapper", func |-> func, name |-> func_name, blob |-> blob]

\* the wrappers of all rows of _BIFF_DICT
Wrappers == { _biffer(f, f, _BIFF_DICT[f]) : f \in DOMAIN _BIFF_DICT }

IdleFrame ==
    [pc |-> "idle", fn |-> "", via |-> "", path |-> "", blob |-> NoBlob,
     args |-> <<>>, ret_val |-> PyNone,
     err |-> <<>>, estr |-> <<>>, exc |-> NoExc, own |-> <<>>,
     out |-> PyNone, wrote |-> FALSE, nget |-> 0, nfree |-> 0]

\* the conditional argument is read at args[mubi], one too far
biff_test_zero_based(blob, args, ret_val) ==
    IF ~rvtf(blob.rvtf, ret_val) THEN "pass"
    ELSE IF 0 = blob.mubi THEN "biff"
    ELSE IF blob.mubi >= Len(args) THEN "IndexError"
    ELSE IF Truthy(args[blob.mubi + 1]) THEN "biff"
    ELSE "pass"

\* a conditional argument that was not passed is taken for a falsy one
biff_test_short_is_falsy(blob, args, ret_val) ==
    IF ~rvtf(blob.rvtf, ret_val) THEN "pass"
    ELSE IF 0 = blob.mubi THEN "biff"
    ELSE IF blob.mubi - 1 >= Len(args) THEN "pass"
    ELSE IF Truthy(args[blob.mubi]) THEN "biff"
    ELSE "pass"

\* line 737: rvtf(ret_val) and (0 == mubi or args[mubi - 1])
\*   "biff" the branch is taken, "pass" it is not, "IndexError" args is short
biff_test(blob, args, ret_val) ==
    IF ~rvtf(blob.rvtf, ret_val) THEN "pass"
    ELSE IF 0 = blob.mubi THEN "biff"
    ELSE IF blob.mubi - 1 >= Len(args) THEN "IndexError"
    ELSE IF Truthy(args[blob.mubi]) THEN "biff"
    ELSE "pass"

\* the accumulator after the native function f ran
NativeEffect(a, f, args, ret, msg) ==
    IF NativeUsesBiff(f, args, ret) THEN biffAdd(a, _BIFF_DICT[f].bkey, msg)
    ELSE a

\* line 733: ret_val = func(*args) in the wrapper w, reached by the
\* attribute path `path`; the native call runs to completion
WrapperCall(t, path, w, args, ret, msg) ==
    /\ th[t].pc = "idle"
    /\ LET wr == NativeUsesBiff(w.func, args, ret) IN
        /\ acc' = NativeEffect(acc, w.func, args, ret, msg)
        /\ th' = [th EXCEPT ![t] =
                    [IdleFrame EXCEPT !.pc = "test", !.fn = w.name,
                                      !.via = "wrapper", !.path = path,
                                      !.blob = w.blob, !.args = args,
                                      !.ret_val = ret, !.wrote = wr,
                                      !.own = IF wr THEN msg ELSE <<>>]]

Call(t, w, args, ret, msg) ==
    /\ WrapperCall(t, "wrapper", w, args, ret, msg)
    /\ UNCHANGED <<ns, dp, sc, hd, tf, an>>

\* a wrapper that takes the diagnostic away whether or not it raises
Test_get_always(t) ==
    /\ th[t].pc = "test"
    /\ LET r == biff_test(th[t].blob, th[t].args, th[t].ret_val)
           g == biffGetDone(acc, th[t].blob.bkey) IN
        /\ acc' = IF r = "pass" THEN g.acc ELSE acc
        /\ th' = [th EXCEPT ![t] =
                    CASE r = "pass" -> [@ EXCEPT !.pc = "returned",
                                                 !.out = th[t].ret_val,
                                                 !.nget = @ + 1,
                                                 !.nfree = @ + 1]
                      [] r = "biff" -> [@ EXCEPT !.pc = "get"]
                      [] r = "IndexError" ->
                           [@ EXCEPT !.pc = "raised",
                                     !.exc = [NoExc EXCEPT
                                                 !.kind = "IndexError"]]]
    /\ UNCHANGED <<ns, dp, sc, hd, tf, an>>

\* line 737, and line 744 when the branch is not taken
Test(t) ==
    /\ th[t].pc = "test"
    /\ LET r == biff_test(th[t].blob, th[t].args, th[t].ret_val) IN
        th' = [th EXCEPT ![t] =
                 CASE r = "pass" -> [@ EXCEPT !.pc = "returned",
                                              !.out = th[t].ret_val]
                   [] r = "biff" -> [@ EXCEPT !.pc = "get"]
                   [] r = "IndexError" ->
                        [@ EXCEPT !.pc = "raised",
                                  !.exc = [NoExc EXCEPT !.kind = "IndexError"]]]
    /\ UNCHANGED <<acc, ns, dp, sc, hd, tf, an>>

\* the diagnostic is asked for under the name of the function, not its key
GetDone_by_name(t) ==
    /\ th[t].pc = "get"
    /\ LET k == IF th[t].fn \in BiffKeys THEN th[t].fn ELSE "gage"
           g == biffGetDone(acc, k) IN
        /\ acc' = g.acc
        /\ th' = [th EXCEPT ![t] = [@ EXCEPT !.pc = "str", !.err = g.err,
                                              !.nget = @ + 1]]
    /\ UNCHANGED <<ns, dp, sc, hd, tf, an>>

\* line 738: err = _teem.lib.biffGetDone(bkey)
GetDone(t) ==
    /\ th[t].pc = "get"
    /\ LET g == biffGetDone(acc, th[t].blob.bkey) IN
        /\ acc' = g.acc
        /\ th' = [th EXCEPT ![t] = [@ EXCEPT !.pc = "str", !.err = g.err,
                                              !.nget = @ + 1]]
    /\ UNCHANGED <<ns, dp, sc, hd, tf, an>>

\* line 739: estr = string(err).rstrip()
Str(t) ==
    /\ th[t].pc = "str"
    /\ LET d == string(th[t].err) IN
        th' = [th EXCEPT ![t] =
                 IF d.ok THEN [@ EXCEPT !.pc = "free", !.estr = rstrip(d.s)]
                 ELSE [@ EXCEPT !.pc = "raised",
                                !.exc = [NoExc EXCEPT !.kind = "UnicodeDecodeError"]]]
    /\ UNCHANGED <<acc, ns, dp, sc, hd, tf, an>>

\* line 740: _teem.lib.free(err)
Free(t) ==
    /\ th[t].pc = "free"
    /\ th' = [th EXCEPT ![t] = [@ EXCEPT !.pc = "raise", !.nfree = @ + 1]]
    /\ UNCHANGED <<acc, ns, dp, sc, hd, tf, an>>

\* lines 741-743: raise RuntimeError(f'return value {ret_val} from ...')
Raise(t) ==
    /\ th[t].pc = "raise"
    /\ th' = [th EXCEPT ![t] =
                [@ EXCEPT !.pc = "raised",
                          !.exc = [kind |-> "RuntimeError",
                                   ret_val |-> th[t].ret_val,
                                   func_name |-> th[t].fn,
                                   fnln |-> th[t].blob.fnln,
                                   estr |-> th[t].estr]]]
    /\ UNCHANGED <<acc, ns, dp, sc, hd, tf, an>>

\* the caller has the result or the exception; the frame is gone
Reset(t) ==
    /\ th[t].pc \in {"returned", "raised"}
    /\ th' = [th EXCEPT ![t] = IdleFrame]
    /\ UNCHANGED <<acc, ns, dp, sc, hd, tf, an>>

\* a wrapped call is between its native call and its exit
InCall(t) == th[t].pc \notin {"idle", "returned", "raised"}

-----------------------------------------------------------------------------
(* teem.py: _teem_Module, the object that becomes the module               *)

(* A symbol of dir(_teem.lib): its name, what str(sym) looks like          *)
(* ("airEnum *", "function" for the two function forms, "opaque" for the   *)
(* listed array/struct/pointer forms, "other"), its python type, whether   *)
(* ffi.integer_const(name) succeeds, and its value when it is a scalar.    *)
Sym(name, repr, py, const, val) ==
    [name |-> name, repr |-> repr, py |-> py, const |-> const, val |-> val]

\* dir(_teem.lib) of three compiled bindings, each in sorted order
LibDirs ==
    { << Sym("airEndianLittle", "other", "int", TRUE, 1234),
         Sym("free", "function", "builtin", FALSE, 0),
         Sym("gageContextCopy", "function", "builtin", FALSE, 0),
         Sym("nrrdArrayCompare", "function", "builtin", FALSE, 0),
         Sym("nrrdFormatNRRD", "opaque", "cdata", FALSE, 0),
         Sym("nrrdNuke", "function", "builtin", FALSE, 0),
         Sym("nrrdSameSize", "function", "builtin", FALSE, 0),
         Sym("nrrdStateVerboseIO", "other", "int", FALSE, 0),
         Sym("nrrdType", "airEnum *", "cdata", FALSE, 0),
         Sym("nrrdTypeLast", "other", "int", TRUE, 12) >>,
      << Sym("free", "function", "builtin", FALSE, 0),
         Sym("nrrdNuke", "function", "builtin", FALSE, 0),
         Sym("nrrdSameSize", "function", "builtin", FALSE, 0),
         Sym("nrrdStateVerboseIO", "other", "int", FALSE, 0) >>,
      << Sym("free", "function", "builtin", FALSE, 0),
         Sym("nrrdArrayCompare", "function", "builtin", FALSE, 0),
         Sym("nrrdNuke", "function", "builtin", FALSE, 0),
         Sym("nrrdWeird", "other", "cdata", FALSE, 0) >> }

\* CPython keeps one object per int from -5 to 256: there `cval is sym`
\* holds for equal values
SameObject(val) == val \in (-5)..256

\* a symbol that nothing recognises is taken for a variable
classify_rest_as_alias(sym) ==
    IF "free" = sym.name THEN "skip"
    ELSE IF sym.name \in DOMAIN _BIFF_DICT THEN "biff"
    ELSE IF sym.repr = "airEnum *" THEN "tenum"
    ELSE IF sym.repr \in {"function", "opaque"} THEN "plain"
    ELSE IF sym.const /\ sym.val \in (-5)..256 THEN "const"
    ELSE "alias"

\* the shape is looked at before _BIFF_DICT
classify_shape_first(sym) ==
    IF "free" = sym.name THEN "skip"
    ELSE IF sym.repr = "airEnum *" THEN "tenum"
    ELSE IF sym.repr \in {"function", "opaque"} THEN "plain"
    ELSE IF sym.name \in DOMAIN _BIFF_DICT THEN "biff"
    ELSE IF sym.const /\ SameObject(sym.val) THEN "const"
    ELSE IF sym.py \in {"int", "float", "bytes"} THEN "alias"
    ELSE "unhandled"

\* lines 794-869: what the loop body does with one symbol
classify(sym) ==
    IF "free" = sym.name THEN "skip"
    ELSE IF sym.name \in DOMAIN _BIFF_DICT THEN "biff"
    ELSE IF sym.repr = "airEnum *" THEN "tenum"
    ELSE IF sym.repr \in {"function", "opaque"} THEN "plain"
    ELSE IF sym.const /\ SameObject(sym.val) THEN "const"
    ELSE IF sym.py \in {"int", "float", "bytes"} THEN "alias"
    ELSE "unhandled"

\* the native object itself, as exported by setattr(self, sym_name, sym)
Native(sym) == [kind |-> "native", func |-> sym.name, name |-> sym.name,
                blob |-> NoBlob]

\* Tenum(sym, sym_name)
Tenum(sym) == [kind |-> "Tenum", func |-> sym.name, name |-> sym.name,
               blob |-> NoBlob]

\* every function gets a wrapper, "1 means error" where it has no row
xprt_wrap_all(sym) ==
    CASE classify(sym) = "biff" ->
            _biffer(sym.name, sym.name, _BIFF_DICT[sym.name])
      [] classify(sym) = "tenum" -> Tenum(sym)
      [] classify(sym) = "plain" /\ sym.repr = "function" ->
            _biffer(sym.name, sym.name,
                    [rvtf |-> "_equals_one", mubi |-> 0, bkey |-> "nrrd",
                     fnln |-> ""])
      [] OTHER -> Native(sym)

\* the object setattr() stores for a symbol that is exported
xprt(sym) ==
    CASE classify(sym) = "biff" ->
            _biffer(sym.name, sym.name, _BIFF_DICT[sym.name])
      [] classify(sym) = "tenum" -> Tenum(sym)
      [] classify(sym) \in {"plain", "const"} -> Native(sym)

\* the entries __init__ sets before the loop: the globals of teem.py (of
\* which the class Tenum stands for all), NULL, ffi, lib, the un-wrapped
\* things straight from cffi, and _alias, the alias table
Builtins ==
    [n \in {"Tenum", "NULL", "ffi", "lib", "_alias"} |->
        [kind |-> n, func |-> "", name |-> n, blob |-> NoBlob]]

\* a value a caller has bound to a name
Value(v) == [kind |-> "value", val |-> v]

\* d with d[k] = v
Put(d, k, v) == [x \in DOMAIN d \cup {k} |-> IF x = k THEN v ELSE d[x]]

\* a variable is given an alias and is exported as well
RECURSIVE populate_alias_exported(_, _, _, _)
populate_alias_exported(syms, i, dict, alias) ==
    IF i > Len(syms)
    THEN [done |-> TRUE, dict |-> Put(dict, "_done", Value(PyTrue)),
          alias |-> alias]
    ELSE LET c == classify(syms[i]) IN
         CASE c = "skip" -> populate_alias_exported(syms, i + 1, dict, alias)
           [] c = "unhandled" ->
                [done |-> FALSE, dict |-> dict, alias |-> alias]
           [] c = "alias" ->
                populate_alias_exported(
                    syms, i + 1, Put(dict, syms[i].name, Native(syms[i])),
                    alias \cup {syms[i].name})
           [] OTHER ->
                populate_alias_exported(
                    syms, i + 1, Put(dict, syms[i].name, xprt(syms[i])),
                    alias)

\* lines 793-874: the loop over dir(_teem.lib) from position i on
RECURSIVE populate(_, _, _, _)
populate(syms, i, dict, alias) ==
    IF i > Len(syms)
    THEN [done |-> TRUE, dict |-> Put(dict, "_done", Value(PyTrue)),
          alias |-> alias]
    ELSE LET c == classify(syms[i]) IN
         CASE c = "skip" -> populate(syms, i + 1, dict, alias)
           [] c = "alias" ->
                populate(syms, i + 1, dict, alias \cup {syms[i].name})
           [] c = "unhandled" ->
                [done |-> FALSE, dict |-> dict, alias |-> alias]
           [] OTHER ->
                populate(syms, i + 1, Put(dict, syms[i].name, xprt(syms[i])),
                         alias)

\* getattr(_teem.lib, name) for a function of the library
LibFunctions(syms) ==
    { syms[i].name : i \in { j \in 1..Len(syms) : syms[j].repr = "function" } }

\* _sys.modules[__name__] = _teem_Module()
Populate ==
    /\ ns.phase = "new"
    /\ LET r == populate(ns.syms, 1, Builtins, {}) IN
        ns' = [ns EXCEPT !.phase = IF r.done THEN "sealed" ELSE "failed",
                         !.dict = r.dict, !.alias = r.alias]
    /\ UNCHANGED <<th, acc, dp, sc, hd, tf, an>>

\* a native callable called with no wrapper around it
DirectCall(t, path, f, args, ret, msg) ==
    /\ th[t].pc = "idle"
    /\ NativeUsesBiff(f, args, ret) =>
          Len(acc[_BIFF_DICT[f].bkey]) <= MaxPending
    /\ acc' = NativeEffect(acc, f, args, ret, msg)
    /\ th' = [th EXCEPT ![t] =
                [IdleFrame EXCEPT !.pc = "returned", !.fn = f,
                                  !.via = "native", !.path = path,
                                  !.args = args, !.ret_val = ret,
                                  !.out = ret]]

\* teem.<name>(*args) on the module object
AttrCall(t, name, args, ret, msg) ==
    /\ ns.phase = "sealed"
    /\ name \in DOMAIN ns.dict
    /\ \/ /\ ns.dict[name].kind = "wrapper"
          /\ WrapperCall(t, "attr", ns.dict[name], args, ret, msg)
       \/ /\ ns.dict[name].kind = "native"
          /\ name \in LibFunctions(ns.syms)
          /\ DirectCall(t, "attr", name, args, ret, msg)
    /\ UNCHANGED <<ns, dp, sc, hd, tf, an>>

\* teem.lib.<name>(*args): lib is _teem.lib itself
LibCall(t, name, args, ret, msg) ==
    /\ ns.phase = "sealed"
    /\ ns.dict["lib"].kind = "lib"
    /\ name \in LibFunctions(ns.syms)
    /\ DirectCall(t, "lib", name, args, ret, msg)
    /\ UNCHANGED <<ns, dp, sc, hd, tf, an>>

\* the symbols of the binding that are variables of the library: scalars
\* that are not constants
Variables(syms) ==
    { syms[i].name : i \in { j \in 1..Len(syms) :
                               /\ syms[j].py \in {"int", "float", "bytes"}
                               /\ ~ syms[j].const } }

\* the symbol of a name
SymOf(syms, name) == syms[CHOOSE i \in 1..Len(syms) : syms[i].name = name]

\* what the variables of the library hold when it is loaded
InitStore(syms) ==
    [x \in Variables(syms) |-> PyInt(SymOf(syms, x).val)]

\* values a caller assigns
Vals == {PyInt(0), PyInt(7)}

\* names a caller reads, assigns and deletes
AttrNames ==
    {"nrrdNuke", "nrrdTypeLast", "nrrdStateVerboseIO", "airEndianLittle",
     "_done"}

\* the last attribute operation on the module object and how it ended
NoOp == [kind |-> "none", name |-> "", val |-> PyNone, res |-> "",
         out |-> PyNone]

Op(kind, name, val, res, out) ==
    [kind |-> kind, name |-> name, val |-> val, res |-> res, out |-> out]

\* d without the key k
Remove(d, k) == [x \in DOMAIN d \ {k} |-> d[x]]

\* self._done: the entry of the instance, or else _done = False of the class
Done(n) ==
    IF "_done" \in DOMAIN n.dict
    THEN n.dict["_done"].kind # "value" \/ Truthy(n.dict["_done"].val)
    ELSE FALSE

\* getattr(self.lib, name): a variable of the library is read from its
\* storage, a constant gives its value
lib_getattr(n, name) ==
    IF name \in Variables(n.syms) THEN n.store[name]
    ELSE PyInt(SymOf(n.syms, name).val)

\* setattr(self.lib, name, value): only a variable of the library can be
\* written
lib_setattr(n, name, value) ==
    IF name \in Variables(n.syms)
    THEN [res |-> "ok", store |-> [n.store EXCEPT ![name] = value]]
    ELSE [res |-> "AttributeError", store |-> n.store]

\* __setattr__ that never looks at _done
setattr_pass_through(n, name, value) ==
    [n EXCEPT !.dict = Put(@, name, Value(value)),
              !.op = Op("set", name, value, "ok", PyNone)]

\* _teem_Module.__setattr__(self, name, value)
__setattr__(n, name, value) ==
    IF ~ Done(n)
    THEN [n EXCEPT !.dict = Put(@, name, Value(value)),
                   !.op = Op("set", name, value, "ok", PyNone)]
    ELSE IF name \in n.alias
    THEN LET w == lib_setattr(n, name, value)
         IN  [n EXCEPT !.store = w.store,
                       !.op = Op("set", name, value, w.res, PyNone)]
    ELSE [n EXCEPT !.op = Op("set", name, value, "ValueError", PyNone)]

\* _teem_Module.__getattr__(self, name), reached when the name is neither in
\* the instance nor in the class
__getattr__(n, name) ==
    IF name \in n.alias
    THEN [n EXCEPT !.op = Op("get", name, PyNone, "ok", lib_getattr(n, name))]
    ELSE [n EXCEPT !.op = Op("get", name, PyNone, "KeyError", PyNone)]

\* teem.<name> = value
SetAttr(name, value) ==
    /\ ns.phase = "sealed"
    /\ ns' = __setattr__(ns, name, value)
    /\ UNCHANGED <<th, acc, dp, sc, hd, tf, an>>

\* teem.<name>: the entry of the instance, the attribute of the class, or
\* else __getattr__
GetAttr(name) ==
    /\ ns.phase = "sealed"
    /\ ns' = IF name \in DOMAIN ns.dict
             THEN [ns EXCEPT !.op =
                      Op("get", name, PyNone, "ok",
                         IF ns.dict[name].kind = "value"
                         THEN ns.dict[name].val ELSE ns.dict[name])]
             ELSE IF name = "_done"
             THEN [ns EXCEPT !.op = Op("get", name, PyNone, "ok", PyFalse)]
             ELSE __getattr__(ns, name)
    /\ UNCHANGED <<th, acc, dp, sc, hd, tf, an>>

\* del teem.<name>: the class defines no __delattr__, so the entry of the
\* instance is removed, and a name that has none is an AttributeError
DelAttr(name) ==
    /\ ns.phase = "sealed"
    /\ ns' = IF name \in DOMAIN ns.dict
             THEN [ns EXCEPT !.dict = Remove(@, name),
                             !.op = Op("del", name, PyNone, "ok", PyNone)]
             ELSE [ns EXCEPT !.op =
                      Op("del", name, PyNone, "AttributeError", PyNone)]
    /\ UNCHANGED <<th, acc, dp, sc, hd, tf, an>>

\* the library, or a caller through teem.lib, writes a variable of the
\* library
NativeWrite(name, value) ==
    /\ ns.phase = "sealed"
    /\ name \in Variables(ns.syms)
    /\ ns' = [ns EXCEPT !.store = lib_setattr(ns, name, value).store,
                        !.op = Op("native", name, value, "ok", PyNone)]
    /\ UNCHANGED <<th, acc, dp, sc, hd, tf, an>>

-----------------------------------------------------------------------------
(* exult.py: the catalog of Teem libraries and what is computed from it    *)

Lib(name, expr, deps, hdrs) ==
    [name |-> name, expr |-> expr, deps |-> deps, hdrs |-> hdrs]

\* _tlibs, in the order the dict literal declares its keys
_tlibs ==
    << Lib("air", FALSE, <<>>, <<>>),
       Lib("hest", FALSE, <<"air">>, <<>>),
       Lib("biff", FALSE, <<"air">>, <<>>),
       Lib("nrrd", FALSE, <<"biff", "hest", "air">>,
           << <<"nrrdEnums", ".h">>, <<"nrrdDefines", ".h">> >>),
       Lib("ell", FALSE, <<"nrrd", "biff", "air">>, <<>>),
       Lib("moss", FALSE, <<"ell", "nrrd", "biff", "hest", "air">>, <<>>),
       Lib("unrrdu", FALSE, <<"nrrd", "hest", "biff", "air">>, <<>>),
       Lib("alan", TRUE, <<"ell", "nrrd", "biff", "air">>, <<>>),
       Lib("tijk", TRUE, <<"ell", "nrrd", "air">>, <<>>),
       Lib("gage", FALSE, <<"ell", "nrrd", "biff", "air">>, <<>>),
       Lib("dye", FALSE, <<"ell", "biff", "air">>, <<>>),
       Lib("bane", TRUE, <<"gage", "unrrdu", "nrrd", "biff", "air">>, <<>>),
       Lib("limn", FALSE,
           <<"gage", "ell", "unrrdu", "nrrd", "biff", "hest", "air">>, <<>>),
       Lib("echo", FALSE, <<"limn", "ell", "nrrd", "biff", "air">>, <<>>),
       Lib("hoover", FALSE, <<"limn", "ell", "nrrd", "biff", "air">>, <<>>),
       Lib("seek", FALSE,
           <<"gage", "limn", "ell", "nrrd", "biff", "hest", "air">>, <<>>),
       Lib("ten", FALSE,
           <<"echo", "limn", "gage", "dye", "unrrdu", "ell", "nrrd", "biff",
             "air">>, <<>>),
       Lib("elf", TRUE, <<"ten", "tijk", "limn", "ell", "nrrd", "air">>, <<>>),
       Lib("pull", FALSE,
           <<"ten", "limn", "gage", "ell", "nrrd", "biff", "hest", "air">>,
           <<>>),
       Lib("coil", TRUE, <<"ten", "ell", "nrrd", "biff", "air">>, <<>>),
       Lib("push", TRUE, <<"ten", "gage", "ell", "nrrd", "biff", "air">>,
           <<>>),
       Lib("mite", FALSE,
           <<"ten", "hoover", "limn", "gage", "ell", "nrrd", "biff", "air">>,
           <<>>),
       Lib("meet", FALSE,
           <<"air", "hest", "biff", "nrrd", "ell", "moss", "unrrdu", "alan",
             "tijk", "gage", "dye", "bane", "limn", "echo", "hoover", "seek",
             "ten", "elf", "pull", "coil", "push", "mite">>, <<>>) >>

\* set(list)
ToSet(seq) == { seq[i] : i \in 1..Len(seq) }

\* lib in _tlibs
Known(lib) == \E i \in 1..Len(_tlibs) : _tlibs[i].name = lib

\* _tlibs[lib]
Info(lib) == _tlibs[CHOOSE i \in 1..Len(_tlibs) : _tlibs[i].name = lib]

\* list(sorted(_tlibs.keys()))
tlib_all_sorted ==
    << "air", "alan", "bane", "biff", "coil", "dye", "echo", "elf", "ell",
       "gage", "hest", "hoover", "limn", "meet", "mite", "moss", "nrrd",
       "pull", "push", "seek", "ten", "tijk", "unrrdu" >>

\* tlib_all(): list(_tlibs.keys())
tlib_all == [i \in 1..Len(_tlibs) |-> _tlibs[i].name]

\* tlib_experimental(lib), for a known lib
tlib_experimental(lib) == Info(lib).expr

\* tlib_headers(lib), for a known lib: info['hdrs'] and then f'{lib}.h'; a
\* file name is its stem and its extension
tlib_headers(lib) == Info(lib).hdrs \o << <<lib, ".h">> >>

\* the libraries a caller may name; "teem" is not a library
LibNames == ToSet(tlib_all) \cup {"teem"}

\* tla.index(x)
Index(tla, x) == CHOOSE i \in 1..Len(tla) : tla[i] = x /\ \A j \in 1..(i - 1) : tla[j] # x

\* sorted(list(S), key=tla.index): the k-th element has k - 1 elements of S
\* before it in tla
sorted_by_index(S, tla) ==
    [k \in 1..Cardinality(S) |->
        CHOOSE x \in S :
            Cardinality({y \in S : Index(tla, y) < Index(tla, x)}) = k - 1]

\* the loop body keeps what it has found and looks no further
loop_body_no_expand(lib, newd) == newd

\* the loop body forgets what it has found
loop_body_forgets(lib, newd) == {lib}

\* lines 209-211: tmpd after the for loop over newd
loop_body(lib, newd) ==
    UNION { {lib} \cup ToSet(Info(nlb).deps) : nlb \in newd }

IdleDp == [pc |-> "idle", fn |-> "", lib |-> "", oldd |-> {}, newd |-> {},
           ret |-> <<>>, flag |-> FALSE, iters |-> 0]

\* lines 200-206 of tlib_depends
DepStart(lib) ==
    /\ dp.pc = "idle"
    /\ dp' = IF Known(lib)
             THEN [IdleDp EXCEPT !.pc = "loop", !.fn = "tlib_depends",
                                 !.lib = lib,
                                 !.newd = {lib} \cup ToSet(Info(lib).deps)]
             ELSE [IdleDp EXCEPT !.pc = "error", !.fn = "tlib_depends",
                                 !.lib = lib]
    /\ UNCHANGED <<th, acc, ns, sc, hd, tf, an>>

\* lines 207-213: one turn of the while loop
DepIter ==
    /\ dp.pc = "loop"
    /\ dp.oldd # dp.newd
    /\ dp' = [dp EXCEPT !.oldd = dp.newd,
                        !.newd = loop_body(dp.lib, dp.newd),
                        !.iters = @ + 1]
    /\ UNCHANGED <<th, acc, ns, sc, hd, tf, an>>

\* lines 214-216: the loop is over, the sorted list is returned
DepReturn ==
    /\ dp.pc = "loop"
    /\ dp.oldd = dp.newd
    /\ dp' = [dp EXCEPT !.pc = "done",
                        !.ret = sorted_by_index(dp.newd, tlib_all)]
    /\ UNCHANGED <<th, acc, ns, sc, hd, tf, an>>

\* tlib_all()
TlibAll ==
    /\ dp.pc = "idle"
    /\ dp' = [IdleDp EXCEPT !.pc = "done", !.fn = "tlib_all",
                            !.ret = tlib_all]
    /\ UNCHANGED <<th, acc, ns, sc, hd, tf, an>>

\* tlib_experimental(lib)
TlibExperimental(lib) ==
    /\ dp.pc = "idle"
    /\ dp' = IF Known(lib)
             THEN [IdleDp EXCEPT !.pc = "done", !.fn = "tlib_experimental",
                                 !.lib = lib, !.flag = tlib_experimental(lib)]
             ELSE [IdleDp EXCEPT !.pc = "error",
                                 !.fn = "tlib_experimental", !.lib = lib]
    /\ UNCHANGED <<th, acc, ns, sc, hd, tf, an>>

\* tlib_headers(lib)
TlibHeaders(lib) ==
    /\ dp.pc = "idle"
    /\ dp' = IF Known(lib)
             THEN [IdleDp EXCEPT !.pc = "done", !.fn = "tlib_headers",
                                 !.lib = lib, !.ret = tlib_headers(lib)]
             ELSE [IdleDp EXCEPT !.pc = "error", !.fn = "tlib_headers",
                                 !.lib = lib]
    /\ UNCHANGED <<th, acc, ns, sc, hd, tf, an>>

\* the caller has the list or the RuntimeError
DepDone ==
    /\ dp.pc \in {"done", "error"}
    /\ dp' = IdleDp
    /\ UNCHANGED <<th, acc, ns, sc, hd, tf, an>>

-----------------------------------------------------------------------------
(* exult.py: ScanHdr, the conditional filter over one header               *)

\* A line is a sequence of lexemes.  Sp is one run of white space; "#" opens
\* a directive; the words after it are the directive's keyword and its
\* arguments; "__attribute__(" opens an attribute group; a lexeme of
\* ClosingParen ends with ")"; every other lexeme is text with no white
\* space and no ")" in it.
Sp == " "

ClosingParen == {")", "g()"}

\* the lines a header is built from
LineForms ==
    { <<"#", "ifdef", Sp, "A">>,
      <<"#", Sp, "ifndef", Sp, "A">>,
      <<"#", "else">>,
      <<"#", "endif">>,
      <<"#", "define", Sp, "A">>,
      <<"int x;">>,
      <<Sp, "int y;", Sp>>,
      <<"__attribute__(", "u", ")", Sp, "int z;">>,
      <<Sp>> }

\* a header has at most MaxLines lines
MaxLines == 4

Headers == UNION { [1..n -> LineForms] : n \in 0..MaxLines }

\* the lists of names a caller passes as defined
Seeds == { <<>>, << <<"A">> >> }

\* str.strip(): the line without its leading and trailing white space
strip(line) ==
    LET ink == { i \in 1..Len(line) : line[i] # Sp }
    IN  IF ink = {} THEN <<>>
        ELSE SubSeq(line,
                    CHOOSE i \in ink : \A j \in ink : i <= j,
                    CHOOSE i \in ink : \A j \in ink : j <= i)

\* the lexeme at position k, or nothing past the end of the line
word(line, k) == IF k \in 1..Len(line) THEN line[k] ELSE ""

\* where the keyword of a directive stands: after '#' and ' *'
kw(line) == IF word(line, 2) = Sp THEN 3 ELSE 2

\* the rest of the line from position k
rest(line, k) == SubSeq(line, k, Len(line))

\* re.match(r'\S*\s', dname): there is white space in dname
has_space(dname) == \E i \in 1..Len(dname) : dname[i] = Sp

\* re.match(r'# *(ifn{0,1}def) +(\S.*)$', line)
match_ifdef(line) ==
    /\ word(line, kw(line)) \in {"ifdef", "ifndef"}
    /\ word(line, kw(line) + 1) = Sp
    /\ Len(line) >= kw(line) + 2

\* re.match(r'# *else', line)
match_else(line) == word(line, kw(line)) = "else"

\* no line is taken for an #endif
match_endif_never(line) == FALSE

\* re.match(r'# *endif', line)
match_endif(line) == word(line, kw(line)) = "endif"

\* the text without the white space it starts with
skip_space(r) ==
    LET ink == { i \in 1..Len(r) : r[i] # Sp }
    IN  IF ink = {} THEN <<>>
        ELSE SubSeq(r, CHOOSE i \in ink : \A j \in ink : i <= j, Len(r))

\* the text up to its first white space
upto_space(r) ==
    LET sps == { i \in 1..Len(r) : r[i] = Sp }
    IN  IF sps = {} THEN r
        ELSE SubSeq(r, 1, (CHOOSE i \in sps : \A j \in sps : i <= j) - 1)

\* re.match(r'# *define +(\S+)(\s*\S*)$', line): white space, a name, and
\* then up to the end of the line a run of white space and a text without
\* white space, either of which may be empty
match_define(line) ==
    /\ word(line, kw(line)) = "define"
    /\ word(line, kw(line) + 1) = Sp
    /\ LET r    == skip_space(rest(line, kw(line) + 1))
           dval == rest(r, Len(upto_space(r)) + 1)
       IN  r # <<>> /\ ~ has_space(skip_space(dval))

\* match.group(1) of the define pattern: the text up to the white space
define_name(line) == upto_space(skip_space(rest(line, kw(line) + 1)))

\* re.match(r'# *include', line)
match_include(line) == word(line, kw(line)) = "include"

\* where the ")" lexemes of a line stand
Closers(line) == { i \in 1..Len(line) : line[i] \in ClosingParen }

\* re.match(r'(__attribute__\(.*\))', line): the line starts with the
\* attribute opener and some ")" follows
match_attribute(line) ==
    /\ word(line, 1) = "__attribute__("
    /\ Closers(line) # {}

\* line.replace(match.group(1), ''): the group runs to the last ")" of the
\* line, so it occurs once, at the start
remove_attribute(line) ==
    rest(line, (CHOOSE i \in Closers(line) : \A j \in Closers(line) : j <= i) + 1)

\* all(self.ifstack), taken as the top of the stack alone
all_top(ifstack) == ifstack = <<>> \/ ifstack[Len(ifstack)]

\* all(self.ifstack)
all(ifstack) == \A i \in 1..Len(ifstack) : ifstack[i]

\* dname in self.defined
In(dname, defined) == \E i \in 1..Len(defined) : defined[i] = dname

NoScan ==
    [pc |-> "none", ilines |-> <<>>, olines |-> <<>>, defined |-> <<>>,
     ifstack |-> <<>>, lnum |-> 0, exc |-> "", at |-> <<>>,
     pass |-> 0, first |-> <<>>, seed |-> <<>>]

\* ScanHdr(filename, defined): ilines is an empty line and then the lines of
\* the file; defined is the caller's list itself.  lnum counts the lines the
\* loop of scan() has read; at is the history of ifstack, as it was when each
\* of those lines was read.  pass is 1 for the scan of a header and 2 for
\* the scan of what that scan returned, which first then holds.  seed is the
\* caller's list as it was before the caller made its first ScanHdr with it.
ScanHdr(lines, defined) ==
    [NoScan EXCEPT !.pc = "scan", !.ilines = << <<>> >> \o lines,
                   !.defined = defined, !.pass = 1, !.seed = defined]

\* the complaint is dropped and the loop goes on
scan_no_raise(s, what) == s

\* raise Exception(...) out of the loop
scan_raise(s, what) == [s EXCEPT !.pc = "raised", !.exc = what]

\* one pass of the loop body of scan() over the next line
scan_line(s) ==
    LET line == strip(s.ilines[s.lnum + 1])
        s1   == [s EXCEPT !.lnum = @ + 1, !.at = Append(@, s.ifstack)]
        top  == Len(s.ifstack)
    IN  IF line = <<>> THEN s1
        ELSE IF line[1] = "#" THEN
            IF match_ifdef(line) THEN
                LET ifdef == word(line, kw(line)) = "ifdef"
                    dname == rest(line, kw(line) + 2)
                IN  IF has_space(dname)
                    THEN scan_raise(s1, "unexpected whitespace")
                    ELSE [s1 EXCEPT !.ifstack =
                             Append(@, ifdef = In(dname, s.defined))]
            ELSE IF match_else(line) THEN
                IF top = 0
                THEN scan_raise(s1, "#else but #if stack is empty")
                ELSE [s1 EXCEPT !.ifstack[top] = ~ @]
            ELSE IF match_endif(line) THEN
                IF top = 0
                THEN scan_raise(s1, "#endif but #if stack is empty")
                ELSE [s1 EXCEPT !.ifstack = SubSeq(@, 1, top - 1)]
            ELSE IF match_define(line) THEN
                IF all(s.ifstack)
                THEN [s1 EXCEPT !.defined = Append(@, define_name(line))]
                ELSE s1
            ELSE IF match_include(line) THEN s1
            ELSE IF all(s.ifstack)
                 THEN scan_raise(s1, "starts with # but is not recognized")
                 ELSE s1
        ELSE IF ~ all(s.ifstack) THEN s1
        ELSE [s1 EXCEPT !.olines =
                 Append(@, IF match_attribute(line)
                           THEN remove_attribute(line) ELSE line)]

\* scan(): the loop reads the next line
ScanLine ==
    /\ sc.pc = "scan"
    /\ sc.lnum < Len(sc.ilines)
    /\ sc' = scan_line(sc)
    /\ UNCHANGED <<th, acc, ns, dp, hd, tf, an>>

\* scan(): the loop is over, return self.olines
ScanReturn ==
    /\ sc.pc = "scan"
    /\ sc.lnum = Len(sc.ilines)
    /\ sc' = [sc EXCEPT !.pc = "done"]
    /\ UNCHANGED <<th, acc, ns, dp, hd, tf, an>>

\* the lines scan() returned are made a header again and scanned by a new
\* ScanHdr that is given the caller's list of defined names
ScanAgain ==
    /\ sc.pc = "done"
    /\ sc.pass = 1
    /\ sc' = [ScanHdr(sc.olines, sc.defined) EXCEPT !.pass = 2,
                                                    !.first = sc.olines,
                                                    !.seed = sc.seed]
    /\ UNCHANGED <<th, acc, ns, dp, hd, tf, an>>

-----------------------------------------------------------------------------
(***************************************************************************)
(* A caller that scans two headers with one list of defined names, as      *)
(* Tffi.cdef does with the list desc() was given.                          *)
(***************************************************************************)

\* self.defined = defined: the list of the scanner is the caller's list
caller_list(s) == s.defined

\* the headers a caller scans after another one
ProbeHeaders ==
    { << <<"#", "ifdef", Sp, "B">>, <<"int x;">>, <<"#", "endif">> >>,
      << <<"#", "ifndef", Sp, "B">>, <<"int x;">>, <<"#", "endif">> >> }

\* scan() has returned, and the caller makes a ScanHdr for another header
\* with the list it gave to the first
ScanLater(hdr) ==
    /\ sc.pc = "done"
    /\ sc.pass = 1
    /\ sc' = [ScanHdr(hdr, caller_list(sc)) EXCEPT !.pass = 2,
                                                   !.first = sc.olines,
                                                   !.seed = sc.seed]
    /\ UNCHANGED <<th, acc, ns, dp, hd, tf, an>>

-----------------------------------------------------------------------------
(***************************************************************************)
(* build_teem.py: the structural patches of header reduction.  A header is *)
(* a sequence of lines (strings); positions are 1-based here, the index a  *)
(* patch returns is the 0-based one of the source.                         *)
(***************************************************************************)

\* the outcome of one call on the list `lines`, which the callee mutates in
\* place: what the list holds afterwards, the exception raised ("" for
\* none) and the value returned
Ok(lines, ret) == [lines |-> lines, exc |-> "", ret |-> ret]

Fail(lines, exc) == [lines |-> lines, exc |-> exc, ret |-> -1]

\* lines.pop(idx) for an idx inside the list
pop(lines, p) == SubSeq(lines, 1, p - 1) \o SubSeq(lines, p + 1, Len(lines))

\* for _ in range(num): lines.pop(idx)
RECURSIVE pops(_, _, _)
pops(lines, p, num) ==
    IF num = 0 THEN Ok(lines, p - 1)
    ELSE IF p > Len(lines) THEN Fail(lines, "IndexError")
    ELSE pops(pop(lines, p), p, num - 1)

\* lines.index(bye): the first position of bye, 0 where it raises ValueError
index(lines, bye) ==
    LET at == { i \in 1..Len(lines) : lines[i] = bye }
    IN  IF at = {} THEN 0 ELSE CHOOSE i \in at : \A j \in at : i <= j

\* the pull.h controls and the forms their #define lines take
PullIds == <<"HINTER", "TANCOVAR", "PHIST">>

PullLine ==
    [id \in ToSet(PullIds), v \in {"1", "0", "2"} |->
        CASE id = "HINTER"   /\ v = "1" -> "#define PULL_HINTER 1"
          [] id = "HINTER"   /\ v = "0" -> "#define PULL_HINTER 0"
          [] id = "HINTER"   /\ v = "2" -> "#define PULL_HINTER 2"
          [] id = "TANCOVAR" /\ v = "1" -> "#define PULL_TANCOVAR 1"
          [] id = "TANCOVAR" /\ v = "0" -> "#define PULL_TANCOVAR 0"
          [] id = "TANCOVAR" /\ v = "2" -> "#define PULL_TANCOVAR 2"
          [] id = "PHIST"    /\ v = "1" -> "#define PULL_PHIST 1"
          [] id = "PHIST"    /\ v = "0" -> "#define PULL_PHIST 0"
          [] id = "PHIST"    /\ v = "2" -> "#define PULL_PHIST 2"]

\* the regular expressions proc_hdr builds for a control: "on" is
\* ^#define PULL_<id> *1$, "off" is ^#define PULL_<id> *0$, "any" is
\* ^#define PULL_<id>
Rgx(id, form) == [id |-> id, form |-> form]

re_match(rgx, line) ==
    \E v \in (CASE rgx.form = "on"  -> {"1"}
                [] rgx.form = "off" -> {"0"}
                [] OTHER            -> {"1", "0", "2"}) :
        line = PullLine[rgx.id, v]

\* drop_at_match(rgx, num, lines): idx starts at -1 and is rebound by every
\* iteration of the for loop, so after a loop that never breaks it is the
\* index of the last line
drop_at_match(rgx, num, lines) ==
    LET hits == { i \in 1..Len(lines) : re_match(rgx, lines[i]) }
        p    == IF hits = {} THEN Len(lines)
                ELSE CHOOSE i \in hits : \A j \in hits : i <= j
    IN  IF p = 0 THEN Fail(lines, "Exception")
        ELSE pops(lines, p, num)

\* drop_at(bye, num, lines)
drop_at(bye, num, lines) ==
    IF index(lines, bye) = 0 THEN Fail(lines, "ValueError")
    ELSE pops(lines, index(lines, bye), num)

\* lines.remove(bye)
list_remove(bye, lines) ==
    IF index(lines, bye) = 0 THEN Fail(lines, "ValueError")
    ELSE Ok(pop(lines, index(lines, bye)), -1)

\* drop_at_all(bye, num, lines): a run is dropped while bye is in lines
RECURSIVE drop_at_all(_, _, _)
drop_at_all(bye, num, lines) ==
    IF index(lines, bye) = 0 THEN Ok(lines, -1)
    ELSE LET r == pops(lines, index(lines, bye), num)
         IN  IF r.exc # "" THEN r ELSE drop_at_all(bye, num, r.lines)

\* lines and anchors the patches are applied to on their own
MaxHdrLines == 3

PatchLines ==
    {"#if 1 /* float == alan_t */", "BANE_GKMS_MAP(BANE_GKMS_DECLARE)",
     PullLine["HINTER", "1"], "int x;"}

PatchLists ==
    UNION { [1..n -> PatchLines] : n \in 0..MaxHdrLines }

Byes == {"#if 1 /* float == alan_t */", "BANE_GKMS_MAP(BANE_GKMS_DECLARE)"}

Nums == {1, 2}

NoPatch == [fn |-> "", found |-> FALSE, num |-> 0, before |-> <<>>]

IdleHd == [pc |-> "idle"]

\* one patch is applied to the list; `found` records whether a line of the
\* list matched the anchor when the patch was called
Patched(fn, found, num, r) ==
    hd' = [hd EXCEPT !.lines = r.lines, !.exc = r.exc, !.ret = r.ret,
                     !.patch = [fn |-> fn, found |-> found, num |-> num,
                                before |-> hd.lines]]

DropAt(bye, num) ==
    /\ hd.pc = "patch"
    /\ Patched("drop_at", index(hd.lines, bye) # 0, num, drop_at(bye, num, hd.lines))
    /\ UNCHANGED <<th, acc, ns, dp, sc, tf, an>>

DropAtMatch(rgx, num) ==
    /\ hd.pc = "patch"
    /\ Patched("drop_at_match",
               \E i \in 1..Len(hd.lines) : re_match(rgx, hd.lines[i]),
               num, drop_at_match(rgx, num, hd.lines))
    /\ UNCHANGED <<th, acc, ns, dp, sc, tf, an>>

ListRemove(bye) ==
    /\ hd.pc = "patch"
    /\ Patched("remove", index(hd.lines, bye) # 0, 1, list_remove(bye, hd.lines))
    /\ UNCHANGED <<th, acc, ns, dp, sc, tf, an>>

DropAtAll(bye, num) ==
    /\ hd.pc = "patch"
    /\ Patched("drop_at_all", index(hd.lines, bye) # 0, num, drop_at_all(bye, num, hd.lines))
    /\ UNCHANGED <<th, acc, ns, dp, sc, tf, an>>

-----------------------------------------------------------------------------
(***************************************************************************)
(* The header checks of an installation: check_path_thdr (exult.py) and    *)
(* check_hdr_path (build_teem.py).  An installation is whether its         *)
(* include/teem directory exists and the set of header files in it.        *)
(***************************************************************************)

\* LIBS of build_teem.py, in the order of the list literal
LIBS ==
    << [name |-> "air", expr |-> FALSE], [name |-> "hest", expr |-> FALSE],
       [name |-> "biff", expr |-> FALSE], [name |-> "nrrd", expr |-> FALSE],
       [name |-> "ell", expr |-> FALSE], [name |-> "moss", expr |-> FALSE],
       [name |-> "unrrdu", expr |-> FALSE], [name |-> "alan", expr |-> TRUE],
       [name |-> "tijk", expr |-> TRUE], [name |-> "gage", expr |-> FALSE],
       [name |-> "dye", expr |-> FALSE], [name |-> "bane", expr |-> TRUE],
       [name |-> "limn", expr |-> FALSE], [name |-> "echo", expr |-> FALSE],
       [name |-> "hoover", expr |-> FALSE], [name |-> "seek", expr |-> FALSE],
       [name |-> "ten", expr |-> FALSE], [name |-> "elf", expr |-> TRUE],
       [name |-> "pull", expr |-> FALSE], [name |-> "coil", expr |-> TRUE],
       [name |-> "push", expr |-> TRUE], [name |-> "mite", expr |-> FALSE],
       [name |-> "meet", expr |-> FALSE] >>

\* f'{LN}.h'
dot_h(LN) == <<LN, ".h">>

\* list.insert(idx, x) at the 1-based position p
insert(seq, p, x) == SubSeq(seq, 1, p - 1) \o <<x>> \o SubSeq(seq, p, Len(seq))

\* add_extra_nrrd_h(hdrs), for a list that holds nrrd.h
add_extra_nrrd_h(hdrs) ==
    LET idx == index(hdrs, dot_h("nrrd"))
    IN  insert(insert(hdrs, idx, dot_h("nrrdDefines")), idx,
               dot_h("nrrdEnums"))

\* sum(lists, [])
RECURSIVE sum(_)
sum(lists) == IF lists = <<>> THEN <<>> ELSE Head(lists) \o sum(Tail(lists))

\* what a header check returns, or the exception it raises
Checked(exper, have) == [exc |-> "", exper |-> exper, have |-> have]

Rejected(why) == [exc |-> why, exper |-> FALSE, have |-> <<>>]

isfile(inst, F) == F \in inst.files

\* check_path_thdr with the test for a partial experimental set left out
check_path_thdr_any(inst) ==
    LET base_libs == SelectSeq(tlib_all, LAMBDA L : ~ tlib_experimental(L))
        expr_libs == SelectSeq(tlib_all, tlib_experimental)
        expr_hdrs == sum([i \in 1..Len(expr_libs) |->
                             tlib_headers(expr_libs[i])])
    IN  IF \A i \in 1..Len(expr_hdrs) : isfile(inst, expr_hdrs[i])
        THEN Checked(TRUE, tlib_all) ELSE Checked(FALSE, base_libs)

\* check_path_thdr(path_thdr) of exult.py
check_path_thdr(inst) ==
    LET all_libs  == tlib_all
        base_libs == SelectSeq(all_libs, LAMBDA L : ~ tlib_experimental(L))
        expr_libs == SelectSeq(all_libs, tlib_experimental)
        base_hdrs == sum([i \in 1..Len(base_libs) |->
                             tlib_headers(base_libs[i])])
        expr_hdrs == sum([i \in 1..Len(expr_libs) |->
                             tlib_headers(expr_libs[i])])
        missing_hdrs == SelectSeq(base_hdrs, LAMBDA F : ~ isfile(inst, F))
        missing_expr_hdrs ==
            SelectSeq(expr_hdrs, LAMBDA F : ~ isfile(inst, F))
    IN  IF ~ inst.teemdir THEN Rejected("no directory")
        ELSE IF missing_hdrs # <<>> THEN Rejected("missing core")
        ELSE IF missing_expr_hdrs # <<>> THEN
            IF Len(missing_expr_hdrs) < Len(expr_hdrs)
            THEN Rejected("missing some")
            ELSE Checked(FALSE, base_libs)
        ELSE Checked(TRUE, all_libs)

\* check_hdr_path(hdr_path) of build_teem.py: the list it returns is one of
\* header files
check_hdr_path(inst) ==
    LET names(libs) == [i \in 1..Len(libs) |-> dot_h(libs[i].name)]
        base_hdrs ==
            add_extra_nrrd_h(names(SelectSeq(LIBS, LAMBDA L : ~ L.expr)))
        expr_hdrs == names(SelectSeq(LIBS, LAMBDA L : L.expr))
        missing_hdrs == SelectSeq(base_hdrs, LAMBDA F : ~ isfile(inst, F))
        missing_expr_hdrs ==
            SelectSeq(expr_hdrs, LAMBDA F : ~ isfile(inst, F))
    IN  IF ~ inst.teemdir THEN Rejected("no directory")
        ELSE IF missing_hdrs # <<>> THEN Rejected("missing core")
        ELSE IF missing_expr_hdrs # <<>> THEN
            IF Len(missing_expr_hdrs) < Len(expr_hdrs)
            THEN Rejected("missing some")
            ELSE Checked(FALSE, base_hdrs)
        ELSE Checked(TRUE, add_extra_nrrd_h(names(LIBS)))

\* the header files of a whole installation, and the ones an installation
\* of the model may lack
AllHdrs == UNION { ToSet(tlib_headers(tlib_all[i])) : i \in 1..Len(tlib_all) }

MayLack ==
    { dot_h("air"), dot_h("nrrdEnums"), dot_h("alan"), dot_h("tijk"),
      dot_h("bane"), dot_h("elf"), dot_h("coil"), dot_h("push") }

Installs ==
    { [teemdir |-> TRUE, files |-> AllHdrs \ lack] : lack \in SUBSET MayLack }
        \cup { [teemdir |-> FALSE, files |-> {}] }

NoCheck == [exc |-> "", exper |-> FALSE, have |-> <<>>]

\* check_path_thdr is called on the installation
CheckPathThdr ==
    /\ hd.pc = "check"
    /\ hd' = [hd EXCEPT !.fn = "check_path_thdr",
                        !.res = check_path_thdr(hd.inst)]
    /\ UNCHANGED <<th, acc, ns, dp, sc, tf, an>>

\* check_hdr_path is called on the installation
CheckHdrPath ==
    /\ hd.pc = "check"
    /\ hd' = [hd EXCEPT !.fn = "check_hdr_path",
                        !.res = check_hdr_path(hd.inst)]
    /\ UNCHANGED <<th, acc, ns, dp, sc, tf, an>>

-----------------------------------------------------------------------------
(***************************************************************************)
(* build_teem.py: proc_hdr and build.  The header files of the model hold  *)
(* the lines below; cdef_teem.h is whether it exists, whether this run     *)
(* wrote it (`run`), its preamble and one section per header written.      *)
(***************************************************************************)

Fill == "/* ... */"

Decl == "int x;"

\* a run of n lines that starts with the anchor
Block(anchor, n) == <<anchor>> \o [i \in 1..(n - 1) |-> Fill]

CxxGuard == "#ifdef __cplusplus"

WinExport ==
    "#if defined(_WIN32) && !defined(__CYGWIN__) && !defined(TEEM_STATIC)"

AirLL == "#if defined(_WIN32) && !defined(__CYGWIN__) && !defined(__MINGW32__)"

AirCmake == "#if !defined(TEEM_NON_CMAKE)"

AirExists ==
    "#if defined(_WIN32) || defined(__ECC) || defined(AIR_EXISTS_MACRO_FAILS) /* NrrdIO-hack-002 */"

NrrdResample == "#if 0 /* float == nrrdResample_t; */"

\* line.rstrip() on the lines of the model
line_rstrip(line) == IF line = "int y; " THEN "int y;" ELSE line

\* the lines that start with #define and white space and end with a
\* backslash
MacroStarts == {"#define M(a) \\", "#define \\"}

\* the other lines that end with a backslash
Continued == {"  (a) + \\", " #define N \\", "# define N \\"}

\* re.match(r'^#define +.*\\$', line)
macro_start(line) == line \in MacroStarts

\* a test that takes no line to go on
ends_backslash_never(line) == FALSE

\* re.match(r'.*?\\$', line)
ends_backslash(line) == line \in MacroStarts \cup Continued

\* unmacro(lines)
RECURSIVE unmacro_from(_, _, _)
unmacro_from(lines, copying, olines) ==
    IF lines = <<>> THEN olines
    ELSE LET line == Head(lines)
         IN  IF macro_start(line)
             THEN unmacro_from(Tail(lines), FALSE, olines)
             ELSE IF ~ copying
             THEN unmacro_from(Tail(lines), ~ ends_backslash(line), olines)
             ELSE unmacro_from(Tail(lines), copying, Append(olines, line))

unmacro(lines) == unmacro_from(lines, TRUE, <<>>)

\* the lines of the lists unmacro is given
MacroLines ==
    MacroStarts \cup Continued \cup {"  (a)", "#define K 1", "int x;"}

\* a list has at most MaxMacroLines lines
MaxMacroLines == 4

MacroLists == UNION { [1..n -> MacroLines] : n \in 0..MaxMacroLines }

\* unmacro(lines) is called and returns
Unmacro ==
    /\ hd.pc = "unmacro"
    /\ hd' = [hd EXCEPT !.pc = "done", !.olines = unmacro(hd.lines)]
    /\ UNCHANGED <<th, acc, ns, dp, sc, tf, an>>

\* proc_line(line) on the lines of the model: '' for an include guard, an
\* #include, a #define of a symbol; X_EXPORT becomes extern
proc_line(line) ==
    CASE line = "#ifndef NRRD_HAS_BEEN_INCLUDED" -> ""
      [] line = "#include <stdio.h>"             -> ""
      [] line = "#define NRRD nrrdBiffKey"       -> ""
      [] line = "NRRD_EXPORT int f(void);"       -> "extern int f(void);"
      [] OTHER                                   -> line

\* f'/* {line} */' for the lines the pull.h filter comments out
commented(line) ==
    CASE line = "#if PULL_HINTER"   -> "/* #if PULL_HINTER */"
      [] line = "#if PULL_TANCOVAR" -> "/* #if PULL_TANCOVAR */"
      [] line = "#if PULL_PHIST"    -> "/* #if PULL_PHIST */"
      [] OTHER                      -> "/* #endif */"

PullIf == [id \in ToSet(PullIds) |->
              CASE id = "HINTER"   -> "#if PULL_HINTER"
                [] id = "TANCOVAR" -> "#if PULL_TANCOVAR"
                [] OTHER           -> "#if PULL_PHIST"]

\* the three controls of pull.h: whether each is on, then its #define line
\* is dropped
RECURSIVE pull_controls(_, _, _)
pull_controls(k, lines, on) ==
    IF k > Len(PullIds) THEN [lines |-> lines, exc |-> "", on |-> on]
    ELSE LET id   == PullIds[k]
             isOn == \E i \in 1..Len(lines) : re_match(Rgx(id, "on"), lines[i])
             off  == \E i \in 1..Len(lines) : re_match(Rgx(id, "off"), lines[i])
             r    == drop_at_match(Rgx(id, "any"), 1, lines)
         IN  IF ~ isOn /\ ~ off
             THEN [lines |-> lines, exc |-> "Exception", on |-> on]
             ELSE IF r.exc # ""
             THEN [lines |-> r.lines, exc |-> r.exc, on |-> on]
             ELSE pull_controls(k + 1, r.lines, on \cup (IF isOn THEN {id} ELSE {}))

\* the loop of the pull.h branch that implements the #if PULL_<id> pairs
RECURSIVE pull_filter(_, _, _, _)
pull_filter(lines, on, copying, olines) ==
    IF lines = <<>> THEN olines
    ELSE LET line == Head(lines)
             ifs  == { id \in ToSet(PullIds) : line = PullIf[id] }
         IN  IF ifs # {}
             THEN pull_filter(Tail(lines), on, ifs \subseteq on,
                              Append(olines, commented(line)))
             ELSE IF line = "#endif"
             THEN pull_filter(Tail(lines), on, TRUE,
                              Append(olines, commented(line)))
             ELSE pull_filter(Tail(lines), on, copying,
                              IF copying THEN Append(olines, line) ELSE olines)

\* a patch, then the next one when it did not raise
Then(r, next(_)) == IF r.exc # "" THEN r ELSE next(r)

\* idx = drop_at(bye, num, lines); lines.insert(idx, new)
drop_insert(bye, num, new, lines) ==
    Then(drop_at(bye, num, lines),
         LAMBDA r : Ok(insert(r.lines, r.ret + 1, new), -1))

\* the part of proc_hdr that is specific to hname
patch_hdr(hname, lines) ==
    CASE hname = dot_h("air") ->
            Then(drop_at(AirLL, 15, lines), LAMBDA r :
            Then(Ok(insert(insert(r.lines, r.ret + 1,
                                  "typedef signed long long airLLong;"),
                           r.ret + 1, "typedef unsigned long long airULLong;"),
                    -1), LAMBDA r2 :
            Then(drop_at(AirCmake, 3, r2.lines), LAMBDA r3 :
                 drop_at(AirExists, 5, r3.lines))))
      [] hname = dot_h("biff") -> drop_at_all("#ifdef __GNUC__", 3, lines)
      [] hname = dot_h("nrrd") -> drop_at(NrrdResample, 9, lines)
      [] hname = dot_h("alan") ->
            drop_insert("#if 1 /* float == alan_t */", 9,
                        "typedef float alan_t;", lines)
      [] hname = dot_h("bane") ->
            list_remove("BANE_GKMS_MAP(BANE_GKMS_DECLARE)", lines)
      [] hname = dot_h("limn") -> list_remove("LIMN_MAP(LIMN_DECLARE)", lines)
      [] hname = dot_h("echo") ->
            Then(drop_insert("#if 1 /* float == echoPos_t */", 7,
                             "typedef float echoPos_t;", lines), LAMBDA r :
            Then(drop_insert("#if 1 /* float == echoCol_t */", 7,
                             "typedef float echoCol_t;", r.lines), LAMBDA r2 :
                 Ok([i \in 1..Len(r2.lines) |->
                        IF r2.lines[i] = "  ECHO_OBJECT_MATTER;"
                        THEN "  unsigned char matter; echoCol_t rgba[4]; echoCol_t mat[ECHO_MATTER_PARM_NUM]; Nrrd *ntext;"
                        ELSE r2.lines[i]], -1)))
      [] hname = dot_h("ten") -> list_remove("TEND_MAP(TEND_DECLARE)", lines)
      [] hname = dot_h("pull") ->
            LET c == pull_controls(1, lines, {})
            IN  IF c.exc # "" THEN Fail(c.lines, c.exc)
                ELSE Ok(pull_filter(c.lines, c.on, TRUE, <<>>), -1)
      [] hname = dot_h("coil") ->
            drop_insert("#if 1 /* float == coil_t */", 9,
                        "typedef float coil_t;", lines)
      [] hname = dot_h("mite") ->
            drop_insert("#if 0 /* float == mite_t */", 10,
                        "typedef double mite_t;", lines)
      [] hname = dot_h("meet") ->
            Then(drop_at_all("#if defined(TEEM_BUILD_EXPERIMENTAL_LIBS)", 1,
                             lines),
                 LAMBDA r : drop_at_all("#endif", 1, r.lines))
      [] OTHER -> Ok(lines, -1)

\* proc_hdr(fout, fin, hname): the lines it writes to fout, or the exception
\* it raises; it writes only after the last patch
proc_hdr(fin, hname) ==
    LET stripped == [i \in 1..Len(fin) |-> line_rstrip(fin[i])]
        unmac    == unmacro(stripped)
        kept     == SelectSeq([i \in 1..Len(unmac) |-> proc_line(unmac[i])],
                              LAMBDA l : l # "")
    IN  Then(drop_at_all(CxxGuard, 3, kept), LAMBDA r :
        Then(drop_at_all(WinExport, 9, r.lines), LAMBDA r2 :
             patch_hdr(hname, r2.lines)))

\* what a header of no library-specific patch holds
PlainHdr ==
    <<"#ifndef NRRD_HAS_BEEN_INCLUDED", "#include <stdio.h>",
      "#define M(a) \\", "  (a) + \\", "  1", "#define NRRD nrrdBiffKey">>
        \o Block(CxxGuard, 3) \o Block(WinExport, 9)
        \o <<"NRRD_EXPORT int f(void);", "int y; ">>

\* the variants of the three headers that differ between installations
Variants == [nrrd : {"block", "short", "none"},
             bane : {"map", "none"},
             pull : {"on", "off", "odd", "none"}]

\* the lines of header file hname in an installation
Content(hname, v) ==
    CASE hname = dot_h("air") ->
            Block(AirLL, 15) \o <<Decl>> \o Block(AirCmake, 3)
                \o Block(AirExists, 5)
      [] hname = dot_h("biff") -> Block("#ifdef __GNUC__", 3) \o <<Decl>>
      [] hname = dot_h("nrrd") ->
            CASE v.nrrd = "block" -> <<Decl>> \o Block(NrrdResample, 9)
              [] v.nrrd = "short" -> <<Decl>> \o Block(NrrdResample, 2)
              [] OTHER            -> <<Decl>>
      [] hname = dot_h("alan") -> Block("#if 1 /* float == alan_t */", 9)
      [] hname = dot_h("bane") ->
            IF v.bane = "map"
            THEN <<Decl, "BANE_GKMS_MAP(BANE_GKMS_DECLARE)">> ELSE <<Decl>>
      [] hname = dot_h("limn") -> <<"LIMN_MAP(LIMN_DECLARE)", Decl>>
      [] hname = dot_h("echo") ->
            Block("#if 1 /* float == echoPos_t */", 7)
                \o Block("#if 1 /* float == echoCol_t */", 7)
                \o <<"  ECHO_OBJECT_MATTER;">>
      [] hname = dot_h("ten") -> <<"TEND_MAP(TEND_DECLARE)", Decl>>
      [] hname = dot_h("pull") ->
            (CASE v.pull = "on"  -> <<PullLine["HINTER", "1"]>>
               [] v.pull = "off" -> <<PullLine["HINTER", "0"]>>
               [] v.pull = "odd" -> <<PullLine["HINTER", "2"]>>
               [] OTHER          -> <<>>)
                \o <<PullLine["TANCOVAR", "0"], PullLine["PHIST", "1"],
                     "#if PULL_HINTER", Decl, "#endif", "#if PULL_TANCOVAR",
                     "int t;", "#endif", "int z;">>
      [] hname = dot_h("coil") -> Block("#if 1 /* float == coil_t */", 9)
      [] hname = dot_h("mite") -> Block("#if 0 /* float == mite_t */", 10)
      [] hname = dot_h("meet") ->
            <<"#if defined(TEEM_BUILD_EXPERIMENTAL_LIBS)", Decl, "#endif">>
      [] OTHER -> PlainHdr

\* cdef_teem.h before the run: absent, or what an earlier run left
NoFile == [exists |-> FALSE, run |-> FALSE, pre |-> FALSE, secs |-> <<>>]

Earlier == [exists |-> TRUE, run |-> FALSE, pre |-> TRUE, secs |-> <<>>]

\* build(path) up to the open of cdef_teem.h: the directory checks,
\* check_lib_path and check_hdr_path
BuildCheck ==
    /\ hd.pc = "build"
    /\ LET c == check_hdr_path(hd.inst)
       IN  hd' = IF ~ hd.inst.libok \/ c.exc # ""
                 THEN [hd EXCEPT !.pc = "raised", !.exc = "Exception"]
                 ELSE [hd EXCEPT !.pc = "open", !.hdrs = c.have,
                                 !.exper = c.exper]
    /\ UNCHANGED <<th, acc, ns, dp, sc, tf, an>>

\* open('cdef_teem.h', 'w') and the write of the preamble
BuildOpen ==
    /\ hd.pc = "open"
    /\ hd' = [hd EXCEPT !.pc = "hdrs",
                        !.file = [exists |-> TRUE, run |-> TRUE, pre |-> TRUE,
                                  secs |-> <<>>]]
    /\ UNCHANGED <<th, acc, ns, dp, sc, tf, an>>

\* one iteration of the loop over hdrs: the marker is written, then proc_hdr
\* writes the reduced header or raises, and the with statement closes the
\* file on the way out
BuildHdr ==
    /\ hd.pc = "hdrs"
    /\ hd.k <= Len(hd.hdrs)
    /\ LET hdr == hd.hdrs[hd.k]
           r   == proc_hdr(Content(hdr, hd.var), hdr)
       IN  hd' = IF r.exc # ""
                 THEN [hd EXCEPT !.pc = "raised", !.exc = r.exc,
                                 !.file.secs =
                                     Append(@, [hdr |-> hdr, done |-> FALSE,
                                                lines |-> <<>>])]
                 ELSE [hd EXCEPT !.k = @ + 1,
                                 !.file.secs =
                                     Append(@, [hdr |-> hdr, done |-> TRUE,
                                                lines |-> r.lines])]
    /\ UNCHANGED <<th, acc, ns, dp, sc, tf, an>>

\* the loop is over: cdef_teem.h is closed, read back and handed to cffi,
\* which compiles it or raises
BuildCompile(ok) ==
    /\ hd.pc = "hdrs"
    /\ hd.k > Len(hd.hdrs)
    /\ hd' = [hd EXCEPT !.pc = IF ok THEN "done" ELSE "raised",
                        !.exc = IF ok THEN "" ELSE "cffi"]
    /\ UNCHANGED <<th, acc, ns, dp, sc, tf, an>>

-----------------------------------------------------------------------------
(***************************************************************************)
(* exult.py: the Tffi build object.  tf holds the fields the build calls   *)
(* read and write, the state of the FFI instance, the platform, and a log  *)
(* of the calls that returned normally.                                    *)
(***************************************************************************)

IdleTf == [pc |-> "idle"]

\* how many calls are made on one Tffi
MaxCalls == 5

\* names desc() may be given for the non-Teem library
DescNames == {"mylib", "teem", "nrrd", "_mylib"}

\* name.startswith('_')
starts_underscore(name) == name = "_mylib"

\* Tffi(path_tsrc, path_tinst, top_tlib) for paths that pass the checks of
\* __init__; have_tlibs is what check_path_tinst returned
Tffi(top_tlib, have_tlibs, platform) ==
    [pc |-> "obj", platform |-> platform, have_tlibs |-> have_tlibs,
     libs |-> <<"teem">>,
     isteem |-> IF top_tlib = "teem" THEN PyTrue ELSE PyNone,
     name |-> IF top_tlib = "teem" THEN "teem" ELSE "",
     top_tlib |-> IF top_tlib = "teem" THEN "meet" ELSE top_tlib,
     has_dfnd |-> FALSE, assigned |-> FALSE, step |-> 1,
     log |-> <<>>, last |-> [call |-> "", exc |-> ""]]

\* a call has raised: nothing but the record of the call changes
Raised(call, exc) == [tf EXCEPT !.last = [call |-> call, exc |-> exc]]

\* a call has returned: o is the object as the call left it
Returned(call, o) ==
    [o EXCEPT !.last = [call |-> call, exc |-> ""], !.log = Append(@, call)]

\* an FFI.compile() that compiles whatever it is given
ffi_compile_any(assigned) == ""

\* FFI.compile() of cffi refuses an FFI on which set_source() was not called
ffi_compile(assigned) == IF assigned THEN "" ELSE "ValueError"

\* desc(name, path_nhdr, path_nlib, dfnd, eca, ela)
Desc(name, dirs_ok) ==
    /\ tf.pc = "obj"
    /\ Len(tf.log) < MaxCalls
    /\ tf' = IF 1 # tf.step THEN Raised("desc", "Exception")
             ELSE IF tf.isteem # PyNone THEN Raised("desc", "Exception")
             ELSE IF name = "teem" \/ name \in ToSet(tf.have_tlibs)
             THEN Raised("desc", "Exception")
             ELSE IF starts_underscore(name) THEN Raised("desc", "Exception")
             ELSE IF tf.libs # <<"teem">> THEN Raised("desc", "Exception")
             ELSE IF ~ dirs_ok THEN Raised("desc", "Exception")
             ELSE Returned("desc", [tf EXCEPT !.libs = <<name>> \o @,
                                              !.name = name,
                                              !.has_dfnd = TRUE])
    /\ UNCHANGED <<th, acc, ns, dp, sc, hd, an>>

\* cdef(): files_ok is whether the cdef headers, and the header of the
\* non-Teem library, can be read, scanned and declared
Cdef(files_ok) ==
    /\ tf.pc = "obj"
    /\ Len(tf.log) < MaxCalls
    /\ tf' = IF 1 # tf.step THEN Raised("cdef", "Exception")
             ELSE IF ~ files_ok THEN Raised("cdef", "OSError")
             ELSE IF ~ Truthy(tf.isteem) /\ ~ tf.has_dfnd
             THEN Raised("cdef", "AttributeError")
             ELSE Returned("cdef", [tf EXCEPT !.step = 2])
    /\ UNCHANGED <<th, acc, ns, dp, sc, hd, an>>

\* set_source()
SetSource ==
    /\ tf.pc = "obj"
    /\ Len(tf.log) < MaxCalls
    /\ tf' = IF 2 # tf.step THEN Raised("set_source", "Exception")
             ELSE Returned("set_source",
                           [tf EXCEPT !.assigned = TRUE, !.step = 3])
    /\ UNCHANGED <<th, acc, ns, dp, sc, hd, an>>

\* compile(run_int): built is whether the C compiler, and install_name_tool
\* when it is run, succeed
Compile(run_int, built) ==
    /\ tf.pc = "obj"
    /\ Len(tf.log) < MaxCalls
    /\ tf' = IF run_int /\ tf.platform # "darwin"
             THEN Raised("compile", "Exception")
             ELSE IF ffi_compile(tf.assigned) # ""
             THEN Raised("compile", ffi_compile(tf.assigned))
             ELSE IF ~ built THEN Raised("compile", "RuntimeError")
             ELSE Returned("compile", tf)
    /\ UNCHANGED <<th, acc, ns, dp, sc, hd, an>>

-----------------------------------------------------------------------------
(***************************************************************************)
(* gen_biffdata.py: the scanner of "Biff:" annotations.  A text is a       *)
(* sequence of lexemes, Sp being one blank; a function name is a sequence  *)
(* of characters.                                                          *)
(***************************************************************************)

IdleAn == [pc |-> "idle"]

\* s.split(sep)
RECURSIVE split(_, _)
split(s, sep) ==
    LET at == { i \in 1..Len(s) : s[i] = sep }
    IN  IF at = {} THEN <<s>>
        ELSE LET i == CHOOSE j \in at : \A k \in at : j <= k
             IN  <<SubSeq(s, 1, i - 1)>> \o split(SubSeq(s, i + 1, Len(s)), sep)

\* TLIBS, each name as its characters
TLIBS ==
    { <<"n", "r", "r", "d">>, <<"e", "l", "l">>, <<"m", "o", "s", "s">>,
      <<"u", "n", "r", "r", "d", "u">>, <<"a", "l", "a", "n">>,
      <<"t", "i", "j", "k">>, <<"g", "a", "g", "e">>, <<"d", "y", "e">>,
      <<"b", "a", "n", "e">>, <<"l", "i", "m", "n">>, <<"e", "c", "h", "o">>,
      <<"h", "o", "o", "v", "e", "r">>, <<"s", "e", "e", "k">>,
      <<"t", "e", "n">>, <<"e", "l", "f">>, <<"p", "u", "l", "l">>,
      <<"c", "o", "i", "l">>, <<"p", "u", "s", "h">>, <<"m", "i", "t", "e">>,
      <<"m", "e", "e", "t">> }

Lower ==
    {"a", "b", "c", "d", "e", "f", "g", "h", "i", "j", "k", "l", "m", "n",
     "o", "p", "q", "r", "s", "t", "u", "v", "w", "x", "y", "z"}

\* re.match(r'_*(.+?)[^a-z]', function): the leading underscores are taken
\* greedily, giving some back when nothing matches otherwise; then the
\* shortest group of one or more characters that a character outside a-z
\* follows.  <<>> when there is no match, else group(1)
key_match(function) ==
    LET n     == Len(function)
        lead  == { u \in 0..n : \A i \in 1..u : function[i] = "_" }
        cands == { c \in lead \X (1..n) :
                     c[1] + c[2] + 1 <= n
                         /\ function[c[1] + c[2] + 1] \notin Lower }
        u     == CHOOSE x \in { c[1] : c \in cands } :
                     \A c \in cands : c[1] <= x
        g     == CHOOSE x \in { c[2] : c \in { d \in cands : d[1] = u } } :
                     \A c \in { d \in cands : d[1] = u } : x <= c[2]
    IN  IF cands = {} THEN <<>> ELSE SubSeq(function, u + 1, u + g)

\* a test that takes every key for a library
in_TLIBS_any(biffkey) == TRUE

\* biffkey in TLIBS
in_TLIBS(biffkey) == biffkey \in TLIBS

\* the annotation with its commentary left in
uncomment_keep(annotecomment) == annotecomment

\* the annotation without its # commentary
uncomment(annotecomment) ==
    IF \E i \in 1..Len(annotecomment) : annotecomment[i] = "#"
    THEN strip(split(annotecomment, "#")[1])
    ELSE annotecomment

\* annote[6:], for a text that starts with "Biff:" and, unless that is all of
\* it, a blank
slice6(annote) == SubSeq(annote, 3, Len(annote))

\* anlist of proc_annote
anlist_of(annotecomment) == split(slice6(uncomment(annotecomment)), Sp)

\* what proc_annote gives back: '' (no record), a record, or an exception
NoRec == [function |-> <<>>, qualtype |-> <<>>, errval |-> <<>>,
          mubi |-> <<>>, biffkey |-> <<>>]

Skip == [exc |-> "", has |-> FALSE, rec |-> NoRec]

Abort(exc) == [exc |-> exc, has |-> FALSE, rec |-> NoRec]

\* errval.startswith('maybe:')
starts_maybe(errval) ==
    Len(errval) >= 2 /\ errval[1] = "maybe" /\ errval[2] = ":"

\* a record made from the first word, however many there are
annote_record_first_word(function, qualtype, anlist) ==
    LET errval == anlist[1]
        key    == key_match(function)
    IN  IF key = <<>> \/ ~ in_TLIBS(key) THEN Abort("Exception")
        ELSE [exc |-> "", has |-> TRUE,
              rec |-> [function |-> function, qualtype |-> qualtype,
                       errval |-> errval, mubi |-> <<"0">>,
                       biffkey |-> key]]

\* the part of proc_annote after the functions it ignores
annote_record(function, qualtype, anlist) ==
    LET errval == anlist[1]
        mlist  == split(errval, ":")
        key    == key_match(function)
    IN  IF 1 # Len(anlist) THEN Abort("Exception")
        ELSE IF starts_maybe(errval) /\ Len(mlist) < 3
        THEN Abort("IndexError")
        ELSE IF key = <<>> THEN Abort("Exception")
        ELSE IF ~ in_TLIBS(key) THEN Abort("Exception")
        ELSE [exc |-> "", has |-> TRUE,
              rec |-> [function |-> function, qualtype |-> qualtype,
                       errval |-> IF starts_maybe(errval) THEN mlist[3]
                                  ELSE errval,
                       mubi |-> IF starts_maybe(errval) THEN mlist[2]
                                ELSE <<"0">>,
                       biffkey |-> key]]

\* proc_annote with no special case for nope
proc_annote_keep_nope(function, qualtype, annotecomment) ==
    LET qtlist == split(qualtype, Sp)
        anlist == anlist_of(annotecomment)
    IN  IF <<"static">> \in ToSet(qtlist) THEN Skip
        ELSE IF <<"(private)">> \in ToSet(anlist) THEN Skip
        ELSE annote_record(function, qualtype, anlist)

\* proc_annote(function, qualtype, annotecomment)
proc_annote(function, qualtype, annotecomment) ==
    LET qtlist == split(qualtype, Sp)
        anlist == anlist_of(annotecomment)
    IN  IF <<"static">> \in ToSet(qtlist) THEN Skip
        ELSE IF <<"nope">> \in ToSet(anlist) THEN Skip
        ELSE IF <<"(private)">> \in ToSet(anlist) THEN Skip
        ELSE annote_record(function, qualtype, anlist)

\* the lines of a source file: the line of a return type and its annotation,
\* the line that starts a definition, the line that defines me[], other code
AnnLine(qual, body) ==
    [k |-> "annot", qual |-> qual \o <<Sp>>,
     ann |-> <<"Biff:", Sp>> \o body \o <<Sp>>, name |-> <<>>,
     brace |-> FALSE, me_param |-> FALSE]

DefLine(name, brace, me_param) ==
    [k |-> "def", qual |-> <<>>, ann |-> <<>>, name |-> name,
     brace |-> brace, me_param |-> me_param]

MeLine(name) ==
    [k |-> "me", qual |-> <<>>, ann |-> <<>>, name |-> name, brace |-> FALSE,
     me_param |-> FALSE]

\* proc_src(file, filename) when it is called
ProcSrc(ilines, csv) ==
    [pc |-> "src", ilines |-> ilines, lidx |-> 0, olines |-> <<>>,
     exc |-> "", csv |-> csv, prev |-> csv]

\* the first line at or after position p that ends the search for ") {":
\* 0 when the search runs off the file
RECURSIVE epob(_, _)
epob(ilines, p) ==
    IF p > Len(ilines) THEN 0
    ELSE IF ilines[p].k = "def" /\ (ilines[p].me_param \/ ilines[p].brace)
    THEN p
    ELSE epob(ilines, p + 1)

src_raise(s, exc) == [s EXCEPT !.pc = "raised", !.exc = exc]

\* one iteration of the loop of proc_src, on the line at 0-based index lidx
src_line(s) ==
    LET p     == s.lidx + 1
        iline == s.ilines[p]
        s1    == [s EXCEPT !.lidx = @ + 1]
    IN  IF iline.k # "annot" THEN s1
        ELSE IF p + 1 > Len(s.ilines) THEN src_raise(s, "IndexError")
        ELSE IF s.ilines[p + 1].k # "def" THEN src_raise(s, "Exception")
        ELSE
            LET function == s.ilines[p + 1].name
                r  == proc_annote(function, strip(iline.qual),
                                  strip(iline.ann))
                s2 == IF r.has
                      THEN [s1 EXCEPT !.olines =
                               Append(@, [rec |-> r.rec, fnln |-> s.lidx + 2])]
                      ELSE s1
                e  == epob(s.ilines, p + 1)
            IN  IF r.exc # "" THEN src_raise(s, r.exc)
                ELSE IF e # 0 /\ s.ilines[e].me_param THEN s2
                ELSE IF e = 0 \/ e + 1 > Len(s.ilines)
                THEN src_raise(s2, "Exception")
                ELSE s2

\* the loop of proc_src takes the next line
SrcLine ==
    /\ an.pc = "src"
    /\ an.lidx < Len(an.ilines)
    /\ an' = src_line(an)
    /\ UNCHANGED <<th, acc, ns, dp, sc, hd, tf>>

\* proc_src and proc_lib return the records, and the main loop writes
\* <lib>.csv when there are any
GenWrite ==
    /\ an.pc = "src"
    /\ an.lidx = Len(an.ilines)
    /\ an' = [an EXCEPT !.pc = "done",
                        !.csv = IF an.olines = <<>> THEN @ ELSE an.olines]
    /\ UNCHANGED <<th, acc, ns, dp, sc, hd, tf>>

-----------------------------------------------------------------------------
(***************************************************************************)
(* build_teem.py: proc_hdr on pull.h.  The header is the #define lines of  *)
(* the three controls and then a body of conditional blocks and            *)
(* declarations.                                                           *)
(***************************************************************************)

\* the lines of the body of pull.h
PullBodyLines ==
    {"#if PULL_HINTER", "#if PULL_TANCOVAR", "#ifdef X", "#endif", "int t;",
     "int u;"}

\* a body has at most MaxPullLines lines
MaxPullLines == 5

PullBodies == UNION { [1..n -> PullBodyLines] : n \in 0..MaxPullLines }

\* proc_hdr(fout, fin, 'pull.h') is called, and writes the lines or raises
PullHdr ==
    /\ hd.pc = "pull"
    /\ LET r == proc_hdr(hd.fin, dot_h("pull"))
       IN  hd' = IF r.exc # ""
                 THEN [hd EXCEPT !.pc = "raised", !.exc = r.exc]
                 ELSE [hd EXCEPT !.pc = "done", !.olines = r.lines]
    /\ UNCHANGED <<th, acc, ns, dp, sc, tf, an>>

-----------------------------------------------------------------------------
NoNs == [phase |-> "none", syms |-> <<>>, dict |-> Builtins, alias |-> {},
         store |-> << >>, op |-> NoOp]

InitOther ==
    /\ dp = IdleDp
    /\ sc = NoScan
    /\ hd = IdleHd
    /\ tf = IdleTf
    /\ an = IdleAn

InitCall ==
    /\ th = [t \in Threads |-> IdleFrame]
    /\ acc = [k \in BiffKeys |-> <<>>]
    /\ ns = NoNs
    /\ InitOther

\* the module is about to be imported over one of the compiled bindings
InitNs ==
    /\ th = [t \in Threads |-> IdleFrame]
    /\ acc = [k \in BiffKeys |-> <<>>]
    /\ \E d \in LibDirs :
          ns = [NoNs EXCEPT !.phase = "new", !.syms = d,
                            !.store = InitStore(d)]
    /\ InitOther

WrapperStep(t) ==
    \/ Test(t)
    \/ GetDone(t)
    \/ Str(t)
    \/ Free(t)
    \/ Raise(t)
    \/ Reset(t)

\* threads call wrapped functions with no coordination
NextCall ==
    \E t \in Threads :
        \/ \E w \in Wrappers, args \in ArgLists, ret \in RetVals,
              msg \in Msgs : Call(t, w, args, ret, msg)
        \/ WrapperStep(t)

\* names a caller may ask the module for
Names ==
    {"free", "gageContextCopy", "nrrdArrayCompare", "nrrdNuke",
     "nrrdSameSize"}

\* the import, then one thread using the module
NextNs ==
    \/ Populate
    \/ \E name \in Names, args \in ArgLists, ret \in RetVals, msg \in Msgs :
          \/ AttrCall("t1", name, args, ret, msg)
          \/ LibCall("t1", name, args, ret, msg)
    \/ WrapperStep("t1")

SpecNs == InitNs /\ [][NextNs]_vars

\* the import, then attribute operations on the module object
NextAttr ==
    \/ Populate
    \/ \E name \in AttrNames :
          \/ \E value \in Vals : SetAttr(name, value)
          \/ \E value \in Vals : NativeWrite(name, value)
          \/ GetAttr(name)
          \/ DelAttr(name)

SpecAttr == InitNs /\ [][NextAttr]_vars

\* calls into the library catalog
NextDeps ==
    \/ \E lib \in LibNames :
          \/ DepStart(lib)
          \/ TlibExperimental(lib)
          \/ TlibHeaders(lib)
    \/ DepIter
    \/ DepReturn
    \/ TlibAll
    \/ DepDone

SpecDeps == InitCall /\ [][NextDeps]_vars

SpecCall == InitCall /\ [][NextCall]_vars

\* a ScanHdr has been made for a header and a list of defined names
InitScan ==
    /\ th = [t \in Threads |-> IdleFrame]
    /\ acc = [k \in BiffKeys |-> <<>>]
    /\ ns = NoNs
    /\ dp = IdleDp
    /\ hd = IdleHd
    /\ tf = IdleTf
    /\ an = IdleAn
    /\ \E hdr \in Headers, seed \in Seeds : sc = ScanHdr(hdr, seed)

NextScan ==
    \/ ScanLine
    \/ ScanReturn
    \/ ScanAgain

SpecScan == InitScan /\ [][NextScan]_vars

\* every wrapped call on a key runs from its native call to its exit with no
\* other call on that key in between
NextSerial ==
    \E t \in Threads :
        \/ \E w \in Wrappers, args \in ArgLists, ret \in RetVals,
              msg \in Msgs :
                /\ \A u \in Threads \ {t} :
                      InCall(u) => th[u].blob.bkey # w.blob.bkey
                /\ Call(t, w, args, ret, msg)
        \/ WrapperStep(t)

SpecSerial == InitCall /\ [][NextSerial]_vars

\* a list of header lines is about to be patched
InitPatch ==
    /\ th = [t \in Threads |-> IdleFrame]
    /\ acc = [k \in BiffKeys |-> <<>>]
    /\ ns = NoNs
    /\ dp = IdleDp
    /\ sc = NoScan
    /\ tf = IdleTf
    /\ an = IdleAn
    /\ \E lines \in PatchLists :
          hd = [pc |-> "patch", lines |-> lines, exc |-> "", ret |-> -1,
                patch |-> NoPatch]

NextPatch ==
    \/ \E bye \in Byes, num \in Nums : DropAt(bye, num)
    \/ \E num \in Nums : DropAtMatch(Rgx("HINTER", "any"), num)
    \/ \E bye \in Byes : ListRemove(bye)
    \/ \E bye \in Byes, num \in Nums : DropAtAll(bye, num)

SpecPatch == InitPatch /\ [][NextPatch]_vars

\* an installation is about to be checked
InitCheck ==
    /\ th = [t \in Threads |-> IdleFrame]
    /\ acc = [k \in BiffKeys |-> <<>>]
    /\ ns = NoNs
    /\ dp = IdleDp
    /\ sc = NoScan
    /\ tf = IdleTf
    /\ an = IdleAn
    /\ \E inst \in Installs :
          hd = [pc |-> "check", inst |-> inst, fn |-> "", res |-> NoCheck]

NextCheck ==
    \/ CheckPathThdr
    \/ CheckHdrPath

SpecCheck == InitCheck /\ [][NextCheck]_vars

\* installations build() may be run on: the three headers that vary, the set
\* of experimental headers, whether the lib directory passes check_lib_path
BuildInstalls ==
    { [teemdir |-> TRUE, files |-> AllHdrs \ lack, libok |-> ok] :
        lack \in { {}, {dot_h("bane")},
                   { dot_h(_tlibs[i].name) :
                       i \in { j \in 1..Len(_tlibs) : _tlibs[j].expr } } },
        ok \in BOOLEAN }

\* build() is about to run
InitBuild ==
    /\ th = [t \in Threads |-> IdleFrame]
    /\ acc = [k \in BiffKeys |-> <<>>]
    /\ ns = NoNs
    /\ dp = IdleDp
    /\ sc = NoScan
    /\ tf = IdleTf
    /\ an = IdleAn
    /\ \E inst \in BuildInstalls, v \in Variants, prev \in {NoFile, Earlier} :
          hd = [pc |-> "build", inst |-> inst, var |-> v, prev |-> prev,
                file |-> prev, hdrs |-> <<>>, exper |-> FALSE, k |-> 1,
                exc |-> ""]

NextBuild ==
    \/ BuildCheck
    \/ BuildOpen
    \/ BuildHdr
    \/ \E ok \in BOOLEAN : BuildCompile(ok)

SpecBuild == InitBuild /\ [][NextBuild]_vars

\* a Tffi has been made for the Teem module or for a library on top of one of
\* the libraries of an installation
InitTffi ==
    /\ th = [t \in Threads |-> IdleFrame]
    /\ acc = [k \in BiffKeys |-> <<>>]
    /\ ns = NoNs
    /\ dp = IdleDp
    /\ sc = NoScan
    /\ hd = IdleHd
    /\ an = IdleAn
    /\ \E top_tlib \in {"teem", "nrrd"}, platform \in {"darwin", "linux"},
          exper \in BOOLEAN :
          tf = Tffi(top_tlib,
                    SelectSeq(tlib_all,
                              LAMBDA L : exper \/ ~ tlib_experimental(L)),
                    platform)

NextTffi ==
    \/ \E name \in DescNames, dirs_ok \in BOOLEAN : Desc(name, dirs_ok)
    \/ \E files_ok \in BOOLEAN : Cdef(files_ok)
    \/ SetSource
    \/ \E run_int \in BOOLEAN, built \in BOOLEAN : Compile(run_int, built)

SpecTffi == InitTffi /\ [][NextTffi]_vars

\* return types, annotation bodies and function names of the sources scanned
Quals == {<<"int">>, <<"static", Sp, "int">>}

Bodies ==
    { <<"1">>, <<"NULL", "|", "0">>, <<"maybe", ":", "2", ":", "1">>,
      <<"nope">>, <<"(private)", Sp, "1">>, <<"1", Sp, "#", Sp, "note">>,
      <<"1", "#", "note">>, <<"1", Sp, "2">>, <<"nope", Sp, "1">>,
      <<"(private)", Sp, "1", Sp, "2">>, <<"maybe", ":", "2">>,
      <<"maybe", ":", "2", ":", "1", Sp, "#", Sp, "note">> }

FuncNames ==
    { <<"t", "e", "n", "X">>, <<"_", "t", "e", "n", "X">>, <<"t", "e", "n">>,
      <<"t", "e", "n", "d", "X">>, <<"T", "e", "n", "_">>,
      <<"e", "l", "l", "_", "x">>, <<"_">> }

\* an annotated function definition: its three lines, or two when the line of
\* its name is the last of it
FuncDef(qual, body, name, shape) ==
    CASE shape = "me"    -> <<AnnLine(qual, body), DefLine(name, TRUE, FALSE),
                             MeLine(name)>>
      [] shape = "param" -> <<AnnLine(qual, body), DefLine(name, FALSE, TRUE)>>
      [] OTHER           -> <<AnnLine(qual, body), DefLine(name, FALSE, FALSE)>>

FuncDefs ==
    { FuncDef(<<"int">>, body, <<"t", "e", "n", "X">>, "me") :
          body \in Bodies }
    \cup { FuncDef(<<"static", Sp, "int">>, body, <<"t", "e", "n", "X">>,
                   "me") : body \in {<<"1">>, <<"1", Sp, "2">>} }
    \cup { FuncDef(<<"int">>, <<"1">>, name, "me") : name \in FuncNames }
    \cup { FuncDef(<<"int">>, <<"1">>, <<"t", "e", "n", "X">>, shape) :
               shape \in {"param", "open"} }

\* how many annotated functions a source file holds
MaxFuncs == 2

RECURSIVE Sources(_)
Sources(n) ==
    IF n = 0 THEN {<<>>}
    ELSE Sources(n - 1)
            \cup { s \o f : s \in Sources(n - 1), f \in FuncDefs }

\* the scan of the one source file of a library is about to start; <lib>.csv
\* is empty or holds the records of an earlier run
InitAnnote ==
    /\ th = [t \in Threads |-> IdleFrame]
    /\ acc = [k \in BiffKeys |-> <<>>]
    /\ ns = NoNs
    /\ dp = IdleDp
    /\ sc = NoScan
    /\ hd = IdleHd
    /\ tf = IdleTf
    /\ \E ilines \in Sources(MaxFuncs) : an = ProcSrc(ilines, <<>>)

NextAnnote ==
    \/ SrcLine
    \/ GenWrite

SpecAnnote == InitAnnote /\ [][NextAnnote]_vars

\* the lines of the headers that define a name: the #define of B with no
\* value, with a value of one word and with a value of three, the tests of A
\* and of B, and a declaration
DefineForms ==
    { <<"#", "define", Sp, "B">>,
      <<"#", "define", Sp, "B", Sp, "1">>,
      <<"#", Sp, "define", Sp, Sp, "B", Sp, "(1", Sp, "+", Sp, "2)">>,
      <<"#", "ifdef", Sp, "A">>,
      <<"#", "ifdef", Sp, "B">>,
      <<"#", "ifndef", Sp, "B">>,
      <<"#", "endif">>,
      <<"int x;">> }

DefineHeaders == UNION { [1..n -> DefineForms] : n \in 0..MaxLines }

\* a ScanHdr has been made for a header that defines names
InitDefine ==
    /\ th = [t \in Threads |-> IdleFrame]
    /\ acc = [k \in BiffKeys |-> <<>>]
    /\ ns = NoNs
    /\ dp = IdleDp
    /\ hd = IdleHd
    /\ tf = IdleTf
    /\ an = IdleAn
    /\ \E hdr \in DefineHeaders, seed \in Seeds : sc = ScanHdr(hdr, seed)

NextDefine ==
    \/ ScanLine
    \/ ScanReturn
    \/ \E hdr \in ProbeHeaders : ScanLater(hdr)

SpecDefine == InitDefine /\ [][NextDefine]_vars

\* the lines of the headers that use #if: the tests of A and of an
\* expression, the lines that close and turn a block, and a declaration
IfForms ==
    { <<"#", "if", Sp, "X">>,
      <<"#", "ifdef", Sp, "A">>,
      <<"#", "else">>,
      <<"#", "endif">>,
      <<"int x;">> }

IfHeaders == UNION { [1..n -> IfForms] : n \in 0..MaxLines }

\* a ScanHdr has been made for a header that uses #if
InitIf ==
    /\ th = [t \in Threads |-> IdleFrame]
    /\ acc = [k \in BiffKeys |-> <<>>]
    /\ ns = NoNs
    /\ dp = IdleDp
    /\ hd = IdleHd
    /\ tf = IdleTf
    /\ an = IdleAn
    /\ \E hdr \in IfHeaders, seed \in Seeds : sc = ScanHdr(hdr, seed)

NextIf ==
    \/ ScanLine
    \/ ScanReturn

SpecIf == InitIf /\ [][NextIf]_vars

\* unmacro is about to be called on a list of lines
InitUnmacro ==
    /\ th = [t \in Threads |-> IdleFrame]
    /\ acc = [k \in BiffKeys |-> <<>>]
    /\ ns = NoNs
    /\ dp = IdleDp
    /\ sc = NoScan
    /\ tf = IdleTf
    /\ an = IdleAn
    /\ \E lines \in MacroLists :
          hd = [pc |-> "unmacro", lines |-> lines, olines |-> <<>>]

NextUnmacro == Unmacro

SpecUnmacro == InitUnmacro /\ [][NextUnmacro]_vars

\* proc_hdr is about to be called on a pull.h
InitPull ==
    /\ th = [t \in Threads |-> IdleFrame]
    /\ acc = [k \in BiffKeys |-> <<>>]
    /\ ns = NoNs
    /\ dp = IdleDp
    /\ sc = NoScan
    /\ tf = IdleTf
    /\ an = IdleAn
    /\ \E h \in {"1", "0", "2"}, t \in {"1", "0"}, body \in PullBodies :
          hd = [pc |-> "pull",
                fin |-> <<PullLine["HINTER", h], PullLine["TANCOVAR", t],
                          PullLine["PHIST", "1"]>> \o body,
                olines |-> <<>>, exc |-> ""]

NextPull == PullHdr

SpecPull == InitPull /\ [][NextPull]_vars

\* a call of tlib_depends runs to its end: the while loop of lines 207-213
\* and the return of lines 214-216 are straight-line code of one call
SpecDepsFair ==
    InitCall /\ [][NextDeps]_vars /\ WF_vars(DepIter) /\ WF_vars(DepReturn)

-----------------------------------------------------------------------------
(* Claims about the call wrapper                                           *)

Blob(t) == th[t].blob

Exited(t) == th[t].pc \in {"returned", "raised"}

\* s holds m as a contiguous run
Holds(s, m) ==
    \E i \in 1..(Len(s) - Len(m) + 1) : SubSeq(s, i, i + Len(m) - 1) = m

\* C1 as stated: the wrapper raises iff rvtf(ret_val) is true and (mubi is 0
\* or the positional argument at position mubi is truthy); in every other
\* case it returns the native return value.
C1_AsStated ==
    \A t \in Threads : Exited(t) =>
        LET cond == /\ rvtf(Blob(t).rvtf, th[t].ret_val)
                    /\ \/ Blob(t).mubi = 0
                       \/ /\ Blob(t).mubi <= Len(th[t].args)
                          /\ Truthy(th[t].args[Blob(t).mubi])
        IN  /\ (th[t].pc = "raised") <=> cond
            /\ ~cond => (th[t].pc = "returned" /\ th[t].out = th[t].ret_val)

\* C1 amended: the wrapper raises iff rvtf(ret_val) is true and (mubi is 0,
\* or fewer than mubi positional arguments were passed, which is the
\* IndexError of args[mubi - 1], or the argument at position mubi is truthy);
\* in every other case it returns the native return value.
C1_RaisesIff ==
    \A t \in Threads : Exited(t) =>
        LET short == Blob(t).mubi > Len(th[t].args)
            cond == /\ rvtf(Blob(t).rvtf, th[t].ret_val)
                    /\ \/ Blob(t).mubi = 0
                       \/ short
                       \/ Truthy(th[t].args[Blob(t).mubi])
        IN  /\ (th[t].pc = "raised") <=> cond
            /\ (th[t].pc = "raised" /\ Blob(t).mubi > 0 /\ short)
                  => th[t].exc.kind = "IndexError"
            /\ ~cond => (th[t].pc = "returned" /\ th[t].out = th[t].ret_val
                                               /\ th[t].exc = NoExc)

\* nrrdSameSize (0 == rv, mubi 3) called with a truthy third argument came
\* back 0 and the structured error was raised; and a call with a falsy third
\* argument returned its value
C1_Witness ==
    /\ th["t1"].pc = "raised" /\ th["t1"].fn = "nrrdSameSize"
    /\ th["t1"].exc.kind = "RuntimeError"
    /\ th["t2"].pc = "returned" /\ th["t2"].fn = "nrrdSameSize"
    /\ th["t2"].ret_val = PyInt(0) /\ Len(th["t2"].args) = 3

\* the call took the branch of line 737 and has left the wrapper
FailureExit(t) == th[t].pc = "raised" /\ th[t].exc.kind # "IndexError"

\* C2: a wrapped call that detects a failure calls biffGetDone(key) exactly
\* once and frees the buffer it got exactly once before the wrapper exits,
\* on every exit path of the failure branch.
C2_OneGetOneFree ==
    \A t \in Threads : FailureExit(t) => (th[t].nget = 1 /\ th[t].nfree = 1)

\* C3: when a wrapped call fails, the raised error carries the native return
\* value, the function name, the recorded source location and the diagnostic
\* text held under the entry's key (up to its trailing whitespace); a return
\* value that does not match is returned with no error.
C3_ErrorPayload ==
    \A t \in Threads :
        /\ FailureExit(t) =>
              /\ th[t].exc.kind = "RuntimeError"
              /\ th[t].exc.ret_val = th[t].ret_val
              /\ th[t].exc.func_name = th[t].fn
              /\ th[t].exc.fnln = Blob(t).fnln
              /\ th[t].exc.estr = rstrip(th[t].err)
        /\ (Exited(t) /\ th[t].fn = "nrrdArrayCompare"
                      /\ th[t].ret_val = PyInt(0))
              => (th[t].pc = "returned" /\ th[t].out = PyInt(0))

\* u's native call left its message under the key and u has not yet called
\* biffGetDone
Pending(u) == th[u].wrote /\ th[u].pc \in {"test", "get"}

\* C6: two threads in wrapped functions that share a key can interleave so
\* that one call takes the other's message.  Every biffGetDone made while
\* another call's message is pending under the same key hands that message
\* to the caller and clears it (the witness is such an interleaving).
C6_TakesOthers ==
    [][\A t \in Threads : \A u \in Threads \ {t} :
         ( /\ th[t].pc = "get" /\ th'[t].pc = "str"
           /\ Pending(u) /\ Blob(u).bkey = Blob(t).bkey
           /\ Holds(acc[Blob(u).bkey], th[u].own) )
         => ( /\ Holds(th'[t].err, th[u].own)
              /\ acc'[Blob(u).bkey] = <<>>
              /\ Pending(u)' )]_vars

\* t1's error text is t2's message on top of its own, and t2's message is
\* gone from the accumulator before t2 asks for it
C6_Witness ==
    /\ th["t1"].pc = "raised" /\ th["t1"].exc.kind = "RuntimeError"
    /\ th["t1"].own = <<97>> /\ th["t2"].own = <<98, 10>>
    /\ th["t1"].exc.estr = <<97, 98>>
    /\ Pending("t2")
    /\ acc["nrrd"] = <<>>

\* C7: when the wrapped calls on a key are serialized, every raised error
\* carries exactly the diagnostic its own native call wrote (up to trailing
\* whitespace), and the accumulator of the key is empty after the raise.
C7_OwnDiagnostic ==
    \A t \in Threads : (th[t].pc = "raised" /\ th[t].wrote) =>
        /\ th[t].exc.kind = "RuntimeError"
        /\ th[t].exc.estr = rstrip(th[t].own)
        /\ (\A u \in Threads \ {t} : ~InCall(u)) => acc[Blob(t).bkey] = <<>>

-----------------------------------------------------------------------------
(* Claims about the namespace and the calls made through it                *)

\* the symbols of the binding the module was imported over
SymsOf(n) == { n.syms[i] : i \in 1..Len(n.syms) }

C5_AsStated ==
    \A t \in Threads :
        (th[t].path \in {"attr", "lib"} /\ th[t].fn \in DOMAIN _BIFF_DICT)
        => th[t].via = "wrapper"

\* C5 amended: for a function of the library that has a dispatch entry, the
\* module attribute of that name is the _biffer wrapper of that entry and a
\* call through it runs the wrapper; the native callable is still exposed,
\* unwrapped, through the module's lib attribute and only there.
C5_AttrIsWrapper ==
    /\ ns.phase = "sealed" =>
          \A sym \in SymsOf(ns) :
              sym.name \in DOMAIN _BIFF_DICT =>
                  /\ sym.name \in DOMAIN ns.dict
                  /\ ns.dict[sym.name] =
                        _biffer(sym.name, sym.name, _BIFF_DICT[sym.name])
    /\ \A t \in Threads :
          (th[t].path \in {"attr", "lib"} /\ th[t].fn \in DOMAIN _BIFF_DICT)
          => /\ th[t].path = "attr" =>
                   (th[t].via = "wrapper" /\ th[t].blob = _BIFF_DICT[th[t].fn])
             /\ th[t].path = "lib" => th[t].via = "native"

\* nrrdArrayCompare called through the module returned 1 and the wrapper
\* raised the structured error
C5_Witness ==
    /\ ns.phase = "sealed"
    /\ th["t1"].path = "attr" /\ th["t1"].fn = "nrrdArrayCompare"
    /\ th["t1"].pc = "raised" /\ th["t1"].exc.kind = "RuntimeError"

-----------------------------------------------------------------------------
(* Claims about the library catalog                                        *)

\* the libraries reached from S in at most n dependency steps
RECURSIVE Reach(_, _)
Reach(S, n) ==
    IF n = 0 THEN S
    ELSE Reach(S \cup UNION { ToSet(Info(x).deps) : x \in S }, n - 1)

\* lib and its direct and transitive dependencies
Closure(lib) == Reach({lib}, Len(_tlibs))

\* every member of seq comes after all of its own dependencies
DepsFirst(seq) ==
    \A i \in 1..Len(seq) :
        \A d \in ToSet(Info(seq[i]).deps) :
            \E j \in 1..(i - 1) : seq[j] = d

NoDuplicates(seq) ==
    \A i \in 1..Len(seq) : \A j \in 1..Len(seq) : seq[i] = seq[j] => i = j

\* C8: for every library L of the catalog, tlib_depends(L) is a list with no
\* duplicates that holds L and all its direct and transitive dependencies,
\* nothing else, and every library after all of its own dependencies.
C8_DependsClosure ==
    (dp.pc = "done" /\ dp.fn = "tlib_depends") =>
        /\ NoDuplicates(dp.ret)
        /\ dp.lib \in ToSet(dp.ret)
        /\ ToSet(dp.ret) = Closure(dp.lib)
        /\ DepsFirst(dp.ret)

\* tlib_depends("ten") returned hest, which ten reaches only through others
C8_Witness ==
    /\ dp.pc = "done" /\ dp.fn = "tlib_depends" /\ dp.lib = "ten"
    /\ "hest" \in ToSet(dp.ret)
    /\ "hest" \notin ToSet(Info("ten").deps)
    /\ dp.iters > 1

\* C9: every library's direct dependencies are known libraries declared
\* earlier in the catalog, so tlib_all() lists the whole catalog with no
\* library ahead of one of its dependencies.
C9_CatalogOrder ==
    (dp.pc = "done" /\ dp.fn = "tlib_all") =>
        /\ \A i \in 1..Len(_tlibs) :
              \A d \in ToSet(_tlibs[i].deps) :
                  \E j \in 1..(i - 1) : _tlibs[j].name = d
        /\ ToSet(dp.ret) = { _tlibs[i].name : i \in 1..Len(_tlibs) }
        /\ NoDuplicates(dp.ret)
        /\ DepsFirst(dp.ret)

\* tlib_all() returned the 23 libraries, air first and meet last
C9_Witness ==
    /\ dp.pc = "done" /\ dp.fn = "tlib_all"
    /\ Len(dp.ret) = Len(_tlibs)
    /\ dp.ret[1] = "air" /\ dp.ret[Len(dp.ret)] = "meet"


-----------------------------------------------------------------------------
(* Claims about the conditional filter                                     *)

\* the line read as the i-th, as scan() looks at it
Read(i) == strip(sc.ilines[i])

\* the i-th line is not empty and is not a directive
Plain(i) == Read(i) # <<>> /\ Read(i)[1] # "#"

\* every entry of the conditional stack was true when the i-th line was read
LiveAt(i) == \A k \in 1..Len(sc.at[i]) : sc.at[i][k]

\* the lines read so far that are plain and were live
LivePlain == { i \in 1..Len(sc.at) : Plain(i) /\ LiveAt(i) }

\* the k-th of them in input order
Nth(k) == CHOOSE i \in LivePlain : Cardinality({ j \in LivePlain : j < i }) = k - 1

\* C10 as stated: the output is exactly the subsequence of the plain lines
\* that were live when read, each as scan() read it (after line.strip()).
C10_AsStated ==
    sc.pc # "none" =>
        sc.olines = [k \in 1..Cardinality(LivePlain) |-> Read(Nth(k))]

\* C10 amended: a non-empty, non-directive line is emitted iff every entry
\* of the conditional stack is true when it is read, and the emitted lines
\* keep their input order; what is emitted for a line is the line without
\* its surrounding white space and, when it starts with an __attribute__(
\* group, without that group up to the last ")" of the line.
C10_LivePlainLines ==
    sc.pc # "none" =>
        sc.olines = [k \in 1..Cardinality(LivePlain) |->
                        IF match_attribute(Read(Nth(k)))
                        THEN remove_attribute(Read(Nth(k)))
                        ELSE Read(Nth(k))]

\* a scan has returned two different lines in their input order and has
\* dropped a plain line that it read inside a false block
C10_Witness ==
    /\ sc.pc = "done"
    /\ Len(sc.olines) = 2 /\ sc.olines[1] # sc.olines[2]
    /\ \E i \in 1..Len(sc.at) : Plain(i) /\ ~ LiveAt(i)

\* the i-th line opens a conditional block: an #ifdef or an #ifndef
Opens(i) == Read(i) # <<>> /\ Read(i)[1] = "#" /\ match_ifdef(Read(i))

\* the i-th line is an #else
IsElse(i) == Read(i) # <<>> /\ Read(i)[1] = "#" /\ ~ match_ifdef(Read(i))
                /\ match_else(Read(i))

\* the i-th line is an #endif
Closes(i) == Read(i) # <<>> /\ Read(i)[1] = "#" /\ ~ match_ifdef(Read(i))
                /\ ~ match_else(Read(i)) /\ match_endif(Read(i))

\* the number of conditional blocks open after the first n lines
OpenBlocks(n) ==
    Cardinality({ i \in 1..n : Opens(i) }) - Cardinality({ i \in 1..n : Closes(i) })

\* every #endif closes an open block, every #else stands inside one, and
\* every block is closed at the end of the header
WellFormed ==
    /\ \A i \in 1..Len(sc.ilines) :
          (Closes(i) \/ IsElse(i)) => OpenBlocks(i - 1) > 0
    /\ OpenBlocks(Len(sc.ilines)) = 0

\* C11: for a well-formed header the conditional stack is empty before the
\* first line and after the last line, and after any prefix its depth is
\* the number of conditional blocks open at that point.
C11_StackDepth ==
    (sc.pc # "none" /\ WellFormed) =>
        /\ sc.lnum = 0 => sc.ifstack = <<>>
        /\ sc.pc # "raised"
        /\ Len(sc.ifstack) = OpenBlocks(sc.lnum)
        /\ \A n \in 1..Len(sc.at) : Len(sc.at[n]) = OpenBlocks(n - 1)
        /\ sc.pc = "done" => sc.ifstack = <<>>

\* the scan of a well-formed header with a block inside a block has returned
C11_Witness ==
    /\ sc.pc = "done" /\ WellFormed
    /\ \E n \in 1..Len(sc.at) : Len(sc.at[n]) = 2

\* C12: an #else or #endif line read while the conditional stack is empty
\* aborts the scan with an exception: the stack is left empty, and no line
\* after it is read.
C12_EmptyStackAborts ==
    \A n \in 1..Len(sc.at) :
        ((IsElse(n) \/ Closes(n)) /\ sc.at[n] = <<>>) =>
            /\ sc.pc = "raised"
            /\ sc.exc = IF IsElse(n) THEN "#else but #if stack is empty"
                        ELSE "#endif but #if stack is empty"
            /\ sc.lnum = n /\ Len(sc.at) = n
            /\ sc.ifstack = <<>>

\* a scan was aborted by an #endif on an empty stack, after it had emitted a
\* line and with lines still unread
C12_Witness ==
    /\ sc.pc = "raised"
    /\ sc.exc = "#endif but #if stack is empty"
    /\ sc.olines # <<>>
    /\ sc.lnum < Len(sc.ilines)

\* C13: the conditional filter is idempotent: the scan of the lines a scan
\* returned, with the same list of defined names, returns exactly those
\* lines, none dropped and none altered.
C13_Idempotent ==
    (sc.pass = 2 /\ sc.pc = "done") => sc.olines = sc.first

-----------------------------------------------------------------------------
(* Claims about the sealed namespace                                       *)

\* the module object is installed and its _done is true
Sealed == ns.phase = "sealed" /\ Done(ns)

\* the step is an assignment teem.<name> = value
IsSet == ns'.op.kind = "set" /\ ns' # ns

C15_AliasWritesNative ==
    [][ (Sealed /\ IsSet /\ ns'.op.name \in ns.alias) =>
            /\ ns'.op.res = "ok"
            /\ ns'.op.name \in DOMAIN ns'.store
            /\ ns'.store[ns'.op.name] = ns'.op.val
            /\ \A x \in DOMAIN ns.store \ {ns'.op.name} :
                  ns'.store[x] = ns.store[x]
            /\ ns'.dict = ns.dict
            /\ ns'.alias = ns.alias ]_vars

\* C16: for every aliased name, a value written through the sealed
\* namespace and then read through it, with nothing in between, is the
\* value read.
C16_AliasRoundTrip ==
    [][ ( /\ Sealed
          /\ ns.op.kind = "set" /\ ns.op.name \in ns.alias
          /\ ns'.op.kind = "get" /\ ns'.op.name = ns.op.name ) =>
            /\ ns'.op.res = "ok"
            /\ ns'.op.out = ns.op.val ]_vars

\* the symbols population exports as functions and constants
Frozen ==
    { sym \in SymsOf(ns) :
        \/ classify(sym) \in {"biff", "const"}
        \/ classify(sym) = "plain" /\ sym.repr = "function" }

\* C17: function and constant entries are frozen after population: no
\* assignment and no deletion, of any name, _done included, changes or
\* removes such an entry or unseals the namespace.
C17_Frozen ==
    ns.phase = "sealed" =>
        /\ Done(ns)
        /\ \A sym \in Frozen :
              /\ sym.name \in DOMAIN ns.dict
              /\ ns.dict[sym.name] = xprt(sym)

\* the classes of an exported or aliased symbol and the kind of its entry
ClassKinds ==
    [c \in {"biff", "tenum", "plain", "const", "alias"} |->
        CASE c = "biff" -> "wrapper"
          [] c = "tenum" -> "Tenum"
          [] c \in {"plain", "const"} -> "native"
          [] c = "alias" -> "none"]

\* C18: population puts every symbol other than free into exactly one of
\* wrapped function, enumeration handle, plain function, opaque value,
\* constant and mutable alias: after a successful population its name is an
\* entry of the namespace or a key of the alias table, never both and never
\* neither.
C18_ExactlyOne ==
    ns.phase = "sealed" =>
        \A sym \in SymsOf(ns) : sym.name # "free" =>
            /\ classify(sym) \in DOMAIN ClassKinds
            /\ (sym.name \in DOMAIN ns.dict) # (sym.name \in ns.alias)
            /\ sym.name \in ns.alias <=> classify(sym) = "alias"
            /\ sym.name \in DOMAIN ns.dict =>
                  ns.dict[sym.name].kind = ClassKinds[classify(sym)]

\* the binding with a wrapped function, an enumeration, a plain function, an
\* opaque value, a constant and a variable has been populated
C18_Witness ==
    /\ ns.phase = "sealed"
    /\ "nrrdStateVerboseIO" \in ns.alias
    /\ \A x \in {"nrrdArrayCompare", "nrrdType", "nrrdNuke", "nrrdFormatNRRD",
                 "nrrdTypeLast"} : x \in DOMAIN ns.dict

\* the symbol has no dispatch entry, none of the recognised shapes, is no
\* integer constant and is no int, float or bytes scalar
Unhandled(sym) ==
    /\ sym.name \notin DOMAIN _BIFF_DICT
    /\ sym.repr = "other"
    /\ ~ sym.const
    /\ sym.py \notin {"int", "float", "bytes"}

\* C19: if a symbol of the binding is unhandled, population aborts with an
\* error: the namespace is never sealed and never installed as the module.
C19_UnhandledAborts ==
    (\E sym \in SymsOf(ns) : Unhandled(sym)) =>
        /\ ns.phase \in {"new", "failed"}
        /\ "_done" \notin DOMAIN ns.dict

\* the population of the binding with nrrdWeird has failed
C19_Witness ==
    /\ ns.phase = "failed"
    /\ \E sym \in SymsOf(ns) : Unhandled(sym)

\* C20: every symbol that resolves as a named integer constant is exported
\* as an entry of the namespace that holds it and is never recorded as an
\* alias, whatever its value.
C20_ConstantsExported ==
    ns.phase = "sealed" =>
        \A sym \in SymsOf(ns) : sym.const =>
            /\ sym.name \in DOMAIN ns.dict
            /\ ns.dict[sym.name] = Native(sym)
            /\ sym.name \notin ns.alias

-----------------------------------------------------------------------------
(* Claims about header reduction and the header checks                     *)

\* C21: a structural patch that names a required anchor (drop_at,
\* drop_at_match, lines.remove) and finds no line of the list matching its
\* anchor raises, and the list is then what it was before the call
C21_NoAnchorAborts ==
    (/\ hd.pc = "patch"
     /\ hd.patch.fn \in {"drop_at", "drop_at_match", "remove"}
     /\ ~ hd.patch.found)
        => (hd.exc # "" /\ hd.lines = hd.patch.before)

\* cdef_teem.h holds the complete result of this run: the preamble and the
\* reduced form of every header of the installation
Complete(file) ==
    /\ file.run
    /\ file.pre
    /\ Len(file.secs) = Len(hd.hdrs)
    /\ \A i \in 1..Len(file.secs) :
          file.secs[i].hdr = hd.hdrs[i] /\ file.secs[i].done

\* C22: when an error aborts the run, cdef_teem.h holds the complete result
\* of the run or nothing the run wrote
C22_NoPartialOutput ==
    (hd.pc = "raised") => (hd.file = hd.prev \/ Complete(hd.file))

\* the header files of the core libraries and of the experimental ones
CoreHdrs ==
    UNION { ToSet(tlib_headers(_tlibs[i].name)) :
                i \in { j \in 1..Len(_tlibs) : ~ _tlibs[j].expr } }

ExprHdrs ==
    UNION { ToSet(tlib_headers(_tlibs[i].name)) :
                i \in { j \in 1..Len(_tlibs) : _tlibs[j].expr } }

\* the catalog's libraries, all of them or the core ones, in catalog order
CatalogLibs(exper) ==
    SelectSeq(tlib_all, LAMBDA L : exper \/ ~ Info(L).expr)

\* C23: a header check accepts an installation iff every core header is
\* present and the experimental headers are all present or all absent; a
\* partial experimental set is rejected; on acceptance the flag returned is
\* true iff all experimental headers are present and the list returned is the
\* whole catalog then and the core libraries otherwise, in catalog order
\* (check_hdr_path returns the header files of those libraries)
C23_HeaderCheck ==
    (hd.pc = "check" /\ hd.fn # "") =>
        LET files  == hd.inst.files
            core   == CoreHdrs \subseteq files
            every  == ExprHdrs \subseteq files
            none   == ExprHdrs \cap files = {}
            libs   == CatalogLibs(every)
        IN  /\ (hd.res.exc = "") <=> (core /\ (every \/ none))
            /\ (core /\ ~ every /\ ~ none) => hd.res.exc = "missing some"
            /\ (hd.res.exc = "") =>
                  /\ hd.res.exper = every
                  /\ hd.fn = "check_path_thdr" => hd.res.have = libs
                  /\ hd.fn = "check_hdr_path" =>
                        hd.res.have =
                            sum([i \in 1..Len(libs) |-> tlib_headers(libs[i])])

\* an installation with none of the experimental headers has been accepted
\* and the core libraries returned
C23_Witness ==
    /\ hd.pc = "check"
    /\ hd.fn = "check_path_thdr"
    /\ hd.res.exc = ""
    /\ ~ hd.res.exper
    /\ Len(hd.res.have) = 17
-----------------------------------------------------------------------------
(* Claims about the Tffi build object                                      *)

\* s is a prefix of t
IsPrefix(s, t) == Len(s) <= Len(t) /\ SubSeq(t, 1, Len(s)) = s

-----------------------------------------------------------------------------
(* Claims about the annotation scanner                                     *)

\* the positions of the annotation lines of the source
AnnotLines == { p \in 1..Len(an.ilines) : an.ilines[p].k = "annot" }

\* the annotation at p as written: its return type, and the tokens of its
\* body once the # commentary is gone
QualTokens(p) == split(strip(an.ilines[p].qual), Sp)

BodyTokens(p) ==
    LET ann  == an.ilines[p].ann
        body == SubSeq(ann, 3, Len(ann))
    IN  split(strip(split(body, "#")[1]), Sp)

IsStatic(p) == <<"static">> \in ToSet(QualTokens(p))

IsNope(p) == BodyTokens(p) = << <<"nope">> >>

IsPrivate(p) == BodyTokens(p)[1] = <<"(private)">>

\* the function the annotation at p is on
FuncAt(p) == an.ilines[p + 1].name

\* the name without its leading underscores, and the run of lowercase letters
\* at the start of that
RECURSIVE NoLead(_)
NoLead(name) ==
    IF name # <<>> /\ Head(name) = "_" THEN NoLead(Tail(name)) ELSE name

RECURSIVE LowerRun(_)
LowerRun(name) ==
    IF name # <<>> /\ Head(name) \in Lower
    THEN <<Head(name)>> \o LowerRun(Tail(name)) ELSE <<>>

\* the name is a library of TLIBS followed by a character outside a-z
HasKey(name) ==
    /\ LowerRun(NoLead(name)) \in TLIBS
    /\ Len(LowerRun(NoLead(name))) < Len(NoLead(name))

\* the one token of the body is a spec, or maybe:N:spec
IsSpec(tok) == tok # <<>> /\ ":" \notin ToSet(tok)

IsMaybe(tok) ==
    /\ Len(split(tok, ":")) = 3
    /\ split(tok, ":")[1] = <<"maybe">>
    /\ split(tok, ":")[2] # <<>>
    /\ split(tok, ":")[3] # <<>>

WellFormed1(p) ==
    /\ Len(BodyTokens(p)) = 1
    /\ IsSpec(BodyTokens(p)[1]) \/ IsMaybe(BodyTokens(p)[1])

\* the loop of proc_src is past the annotation at p, or has raised on it
Passed(p) == p <= an.lidx

Handled(p) == Passed(p) \/ (an.pc = "raised" /\ an.lidx = p - 1)

\* the records emitted for the annotation at p
RecsAt(p) == { i \in 1..Len(an.olines) : an.olines[i].fnln = p + 1 }

C26_MaybeIndex ==
    (an.pc # "idle") =>
        \A i \in 1..Len(an.olines) :
            LET p   == an.olines[i].fnln - 1
                tok == BodyTokens(p)[1]
                rec == an.olines[i].rec
            IN  /\ IsMaybe(tok) =>
                      /\ rec.mubi = split(tok, ":")[2]
                      /\ rec.errval = split(tok, ":")[3]
                /\ IsSpec(tok) => rec.mubi = <<"0">> /\ rec.errval = tok
                /\ ToSet(rec.errval) \cap {"#", "note", Sp} = {}

\* a record has been emitted for a maybe:2:1 annotation that has commentary
C26_Witness ==
    /\ an.pc = "done"
    /\ \E i \in 1..Len(an.olines) :
          /\ an.olines[i].rec.mubi = <<"2">>
          /\ an.olines[i].rec.errval = <<"1">>
          /\ "#" \in ToSet(an.ilines[an.olines[i].fnln - 1].ann)

\* C27: a scan that ends without an error has emitted at most one record for
\* any function name
C27_OneRecordPerFunction ==
    (an.pc = "done") =>
        \A i, j \in 1..Len(an.olines) :
            an.olines[i].rec.function = an.olines[j].rec.function => i = j

\* the annotation at p asks for a record: it is not one the scanner ignores
\* and its body is one token
NeedsRecord(p) ==
    /\ ~ IsStatic(p)
    /\ <<"nope">> \notin ToSet(BodyTokens(p))
    /\ <<"(private)">> \notin ToSet(BodyTokens(p))
    /\ Len(BodyTokens(p)) = 1

\* C28: the key of every record is the run of lowercase letters at the start
\* of the function name without its leading underscores, and is in TLIBS; the
\* scan does not get past an annotation that asks for a record on a function
\* whose name has no such key, and emits no record for it
C28_Key ==
    (an.pc # "idle") =>
        /\ \A i \in 1..Len(an.olines) :
              LET rec == an.olines[i].rec
              IN  /\ rec.biffkey = LowerRun(NoLead(rec.function))
                  /\ rec.biffkey \in TLIBS
        /\ \A p \in AnnotLines :
              (NeedsRecord(p) /\ LowerRun(NoLead(FuncAt(p))) \notin TLIBS)
                  => (~ Passed(p) /\ RecsAt(p) = {})

\* a record has been emitted for a function whose name starts with an
\* underscore, and the scan has raised on a name with no library in front
C28_Witness ==
    /\ an.pc = "raised"
    /\ \E i \in 1..Len(an.olines) :
          /\ Head(an.olines[i].rec.function) = "_"
          /\ an.olines[i].rec.biffkey = <<"t", "e", "n">>
    /\ \E p \in AnnotLines :
          /\ an.lidx = p - 1
          /\ NeedsRecord(p)
          /\ LowerRun(NoLead(FuncAt(p))) \notin TLIBS

\* the body of the annotation at p has a number of tokens the grammar does
\* not allow: more than one, other than (private) followed by one spec
BadCount(p) ==
    /\ Len(BodyTokens(p)) > 1
    /\ ~ (Len(BodyTokens(p)) = 2 /\ IsPrivate(p))

-----------------------------------------------------------------------------
(* Claims about the #define lines of a header                              *)

\* the i-th line is a #define: the keyword after the '#', white space, and a
\* name
IsDefine(i) ==
    /\ Read(i) # <<>>
    /\ Read(i)[1] = "#"
    /\ word(Read(i), kw(Read(i))) = "define"
    /\ word(Read(i), kw(Read(i)) + 1) = Sp
    /\ \E k \in kw(Read(i)) + 2..Len(Read(i)) : Read(i)[k] # Sp

\* the name the i-th line defines: the first word after the keyword
DefinedBy(i) ==
    LET l == Read(i)
        k == CHOOSE j \in kw(l) + 2..Len(l) :
                 l[j] # Sp /\ \A h \in kw(l) + 2..j - 1 : l[h] = Sp
    IN  <<l[k]>>

\* the i-th line is an #ifdef or an #ifndef of the name
Tests(i, dname) == Opens(i) /\ rest(Read(i), kw(Read(i)) + 2) = dname

\* the conditional stack as the i-th line left it
StackAfter(i) == IF i < Len(sc.at) THEN sc.at[i + 1] ELSE sc.ifstack

\* the names the callers pass as defined
SeedNames == UNION { ToSet(seed) : seed \in Seeds }

\* C30: a #define line read while every stack entry is true adds its name to
\* the defined names, and an #ifdef or #ifndef of the name read later in the
\* pass sees the name as defined; a #define line read while some entry is
\* false adds nothing; whatever the value of the #define is
C30_DefineAdds ==
    (sc.pc # "none") =>
        \A i \in 1..Len(sc.at) :
            IsDefine(i) =>
                /\ LiveAt(i) =>
                      /\ In(DefinedBy(i), sc.defined)
                      /\ \A j \in i + 1..Len(sc.at) :
                            Tests(j, DefinedBy(i)) =>
                                /\ Len(StackAfter(j)) = Len(sc.at[j]) + 1
                                /\ StackAfter(j)[Len(StackAfter(j))]
                                       = (word(Read(j), kw(Read(j))) = "ifdef")
                /\ (/\ ~ LiveAt(i)
                    /\ DefinedBy(i) \notin SeedNames
                    /\ \A j \in 1..Len(sc.at) :
                          (IsDefine(j) /\ DefinedBy(j) = DefinedBy(i))
                              => ~ LiveAt(j))
                      => ~ In(DefinedBy(i), sc.defined)

\* C31: the names a scan defines stay in that scan: the list the caller
\* seeded the scan with holds what it held before, and a later scan the
\* caller seeds with that list sees as defined no name that is neither in
\* the seed nor defined in that later scan
C31_ScanLocal ==
    (sc.pc # "none") =>
        /\ caller_list(sc) = sc.seed
        /\ (sc.pass = 2) =>
              \A j \in 1..Len(sc.at) :
                  (/\ Opens(j)
                   /\ rest(Read(j), kw(Read(j)) + 2) \notin ToSet(sc.seed)
                   /\ \A i \in 1..j - 1 : ~ IsDefine(i))
                      => /\ Len(StackAfter(j)) = Len(sc.at[j]) + 1
                         /\ StackAfter(j)[Len(StackAfter(j))]
                                = (word(Read(j), kw(Read(j))) = "ifndef")
-----------------------------------------------------------------------------
(* Claims about the rewriting of a header                                  *)

\* the i-th line of the input is a #define that goes on: it starts with
\* #define and white space and its last character is a backslash
StartsMacro(i) == hd.lines[i] \in {"#define M(a) \\", "#define \\"}

\* the last character of the i-th line of the input is a backslash
GoesOn(i) ==
    hd.lines[i] \in {"#define M(a) \\", "#define \\", "  (a) + \\",
                     " #define N \\", "# define N \\"}

\* the i-th line is in a multi-line macro: the run from a #define that goes
\* on through the first line after it that does not
InMacro(i) ==
    \E s \in 1..i : StartsMacro(s) /\ \A k \in s + 1..i - 1 : GoesOn(k)

\* the lines outside the multi-line macros, in order
RECURSIVE Outside(_)
Outside(n) ==
    IF n = 0 THEN <<>>
    ELSE IF InMacro(n) THEN Outside(n - 1)
    ELSE Append(Outside(n - 1), hd.lines[n])

\* C32: unmacro returns, in order and unchanged, the lines that are in no
\* multi-line macro; a multi-line macro is the run from a line that starts
\* with #define and ends in a backslash through the first line after it that
\* does not end in a backslash
C32_MacrosDropped ==
    (hd.pc = "done") => hd.olines = Outside(Len(hd.lines))

\* unmacro has dropped a macro of three lines and kept the line after it
C32_Witness ==
    /\ hd.pc = "done"
    /\ hd.lines = <<"#define M(a) \\", "  (a) + \\", "  (a)", "int x;">>
    /\ hd.olines = <<"int x;">>

\* the body of the pull.h: what follows the #define lines of the controls
PullBody == SubSeq(hd.fin, 4, Len(hd.fin))

\* the control whose block the line opens, or "" for an #ifdef
OpensCtl(line) ==
    CASE line = "#if PULL_HINTER"   -> "HINTER"
      [] line = "#if PULL_TANCOVAR" -> "TANCOVAR"
      [] OTHER                      -> ""

IsOpener(line) == line \in {"#if PULL_HINTER", "#if PULL_TANCOVAR", "#ifdef X"}

\* the blocks open after the first n lines of the body, innermost last: each
\* #endif closes the innermost open block
RECURSIVE OpenAt(_)
OpenAt(n) ==
    IF n = 0 THEN <<>>
    ELSE LET line == PullBody[n]
             prev == OpenAt(n - 1)
         IN  IF IsOpener(line) THEN Append(prev, OpensCtl(line))
             ELSE IF line = "#endif" /\ prev # <<>>
             THEN SubSeq(prev, 1, Len(prev) - 1)
             ELSE prev

\* every #endif of the body closes a block and every block is closed
Balanced ==
    /\ \A n \in 1..Len(PullBody) :
          PullBody[n] = "#endif" => OpenAt(n - 1) # <<>>
    /\ OpenAt(Len(PullBody)) = <<>>

\* the value the header gives the control
CtlOn(id) == \E i \in 1..3 : hd.fin[i] = PullLine[id, "1"]

\* the n-th line of the body is a declaration
IsDecl(n) == PullBody[n] \in {"int t;", "int u;"}

\* the n-th line of the body is to be emitted: every block of a control it
\* lies in has its control at 1
Visible(n) ==
    \A k \in 1..Len(OpenAt(n)) : OpenAt(n)[k] # "" => CtlOn(OpenAt(n)[k])

RECURSIVE VisibleDecls(_)
VisibleDecls(n) ==
    IF n = 0 THEN <<>>
    ELSE IF IsDecl(n) /\ Visible(n)
    THEN Append(VisibleDecls(n - 1), PullBody[n])
    ELSE VisibleDecls(n - 1)

\* C33: proc_hdr on a pull.h raises when a control is neither 1 nor 0; else
\* no #define of a control is written, and, the blocks being balanced, the
\* declarations written are, in order, those that lie in no block of a
\* control that is 0, also when a block is nested in the block of a control
C33_ToggleBlocks ==
    (hd.pc \in {"done", "raised"}) =>
          /\ (hd.pc = "raised") <=> (hd.fin[1] = PullLine["HINTER", "2"])
          /\ (hd.pc = "done") =>
                /\ \A i \in 1..Len(hd.olines) :
                      \A id \in ToSet(PullIds), v \in {"1", "0", "2"} :
                          hd.olines[i] # PullLine[id, v]
                /\ Balanced =>
                      SelectSeq(hd.olines,
                                LAMBDA l : l \in {"int t;", "int u;"})
                          = VisibleDecls(Len(PullBody))

\* cdef() was the first call to get past its test of self.step, no desc()
\* having succeeded before it, and the files it reads were readable
CdefFirst ==
    /\ tf.pc = "obj"
    /\ tf.last.call = "cdef"
    /\ tf.last.exc # "OSError"
    /\ \/ tf.log = <<>>
       \/ tf.log = <<"cdef">> /\ tf.last.exc = ""

\* C34: on a new Tffi, for the Teem module or for a library on top of a Teem
\* library, a cdef() with no desc() before it and readable files returns and
\* leaves the Tffi at step 2
C34_DescOptional ==
    CdefFirst => (tf.last.exc = "" /\ tf.step = 2)
-----------------------------------------------------------------------------
(* Further claims about the module object, the wrappers, the scanner and   *)
(* the catalog                                                             *)

\* C35: once the module object is populated no name is both a key of the
\* alias table and an entry of the object, and a read of an aliased name
\* gives what the storage of the library holds
C35_AliasNotEntry ==
    (ns.phase = "sealed") =>
        /\ ns.alias \cap DOMAIN ns.dict = {}
        /\ (ns.op.kind = "get" /\ ns.op.name \in ns.alias) =>
              /\ ns.op.res = "ok"
              /\ ns.op.out = lib_getattr(ns, ns.op.name)

\* C36: a wrapped call that returns has called neither biffGetDone nor
\* free, and its one step after the native call, the test that lets it
\* return, leaves the accumulator of every key as it was; so also when the
\* return value matches the predicate and the conditional argument is falsy
C36_ReturnLeavesDiagnostics ==
    [][\A t \in Threads :
          (th[t].pc # "returned" /\ th'[t].pc = "returned") =>
              /\ th[t].pc = "test"
              /\ acc' = acc
              /\ th'[t].nget = 0
              /\ th'[t].nfree = 0
              /\ th'[t].out = th[t].ret_val]_vars

\* a call has returned whose return value matches the predicate and whose
\* conditional argument is falsy, with a diagnostic pending under its key
C36_Witness ==
    \E t \in Threads :
        /\ th[t].pc = "returned"
        /\ rvtf(th[t].blob.rvtf, th[t].ret_val)
        /\ th[t].blob.mubi > 0
        /\ th[t].blob.mubi <= Len(th[t].args)
        /\ ~ Truthy(th[t].args[th[t].blob.mubi])
        /\ acc[th[t].blob.bkey] # <<>>

\* the i-th line opens a conditional block of any kind: #if, #ifdef, #ifndef
OpensAny(i) ==
    /\ Read(i) # <<>>
    /\ Read(i)[1] = "#"
    /\ word(Read(i), kw(Read(i))) \in {"if", "ifdef", "ifndef"}

\* the i-th line is an #endif
ClosesAny(i) ==
    /\ Read(i) # <<>>
    /\ Read(i)[1] = "#"
    /\ word(Read(i), kw(Read(i))) = "endif"

\* the number of blocks of any kind open after the first n lines
DepthAny(n) ==
    Cardinality({ i \in 1..n : OpensAny(i) })
        - Cardinality({ i \in 1..n : ClosesAny(i) })

\* every #endif closes a block, every #else stands inside one, and every
\* block is closed
BalancedAny ==
    /\ \A i \in 1..Len(sc.ilines) :
          (ClosesAny(i) \/ IsElse(i)) => DepthAny(i - 1) > 0
    /\ DepthAny(Len(sc.ilines)) = 0

\* the line that opens the block the #endif at line n closes
Opener(n) ==
    CHOOSE m \in 1..n - 1 :
        /\ OpensAny(m)
        /\ DepthAny(m - 1) = DepthAny(n)
        /\ \A k \in m + 1..n - 1 : DepthAny(k) > DepthAny(n)

\* C37: in a header where every #if, #ifdef and #ifndef is closed by its own
\* #endif, the scan reports no empty stack, and every #endif leaves the
\* conditional stack as it was before the line that opened its block, also
\* inside a region that is dropped
C37_EndifPairs ==
    (sc.pc # "none" /\ BalancedAny) =>
        /\ sc.exc \notin {"#else but #if stack is empty",
                          "#endif but #if stack is empty"}
        /\ \A n \in 1..Len(sc.at) :
              ClosesAny(n) => StackAfter(n) = sc.at[Opener(n)]

\* C38: for an entry with a conditional argument at position N > 0, the
\* step after the native call of a call that passed fewer than N arguments
\* and whose return value matches the predicate is an IndexError, with no
\* biffGetDone, no free and the accumulators untouched; and a call whose
\* return value does not match returns that value, however many arguments
\* it passed
C38_ShortArgs ==
    [][\A t \in Threads :
          (th[t].pc = "test" /\ th'[t] # th[t] /\ th[t].blob.mubi > 0) =>
              /\ (/\ rvtf(th[t].blob.rvtf, th[t].ret_val)
                  /\ Len(th[t].args) < th[t].blob.mubi)
                    => /\ th'[t].pc = "raised"
                       /\ th'[t].exc.kind = "IndexError"
                       /\ th'[t].nget = 0
                       /\ th'[t].nfree = 0
                       /\ acc' = acc
              /\ (~ rvtf(th[t].blob.rvtf, th[t].ret_val))
                    => /\ th'[t].pc = "returned"
                       /\ th'[t].out = th[t].ret_val
                       /\ th'[t].exc = NoExc
                       /\ acc' = acc]_vars

\* a call with no arguments on an entry with N = 3, whose return value
\* matches, has ended in an IndexError while a diagnostic is pending under
\* its key
C38_Witness ==
    \E t \in Threads :
        /\ th[t].pc = "raised"
        /\ th[t].exc.kind = "IndexError"
        /\ th[t].blob.mubi = 3
        /\ th[t].args = <<>>
        /\ rvtf(th[t].blob.rvtf, th[t].ret_val)
        /\ th[t].nget = 0
        /\ acc[th[t].blob.bkey] # <<>>

-----------------------------------------------------------------------------
\* C39: tlib_depends terminates for every library of the catalog: the set of
\* discovered dependencies never shrinks from one iteration to the next, an
\* iteration after the first runs only when the one before it discovered
\* something new, the loop is left right after an iteration that discovered
\* nothing new, there are at most as many iterations as libraries, and every
\* call that entered the loop returns.

InLoop == dp.fn = "tlib_depends" /\ dp.pc = "loop"

\* one turn of the while loop is taken in this step
Iterates == InLoop /\ dp'.pc = "loop" /\ dp'.iters = dp.iters + 1

\* the loop is left in this step
Leaves == InLoop /\ dp'.pc = "done"

C39_LoopBound ==
    dp.fn = "tlib_depends" /\ dp.pc \in {"loop", "done"} =>
        /\ dp.oldd \subseteq dp.newd
        /\ dp.iters <= Len(_tlibs)
        /\ dp.newd \subseteq ToSet(tlib_all)

C39_LoopStep ==
    /\ Iterates =>
          /\ dp.newd \subseteq dp'.newd
          /\ dp'.oldd = dp.newd
          /\ dp.iters >= 1 => dp.oldd # dp.newd
    /\ Leaves =>
          /\ dp.iters >= 1
          /\ dp.oldd = dp.newd
          /\ dp'.newd = dp.newd

C39_Terminates ==
    /\ [] C39_LoopBound
    /\ [][C39_LoopStep]_vars
    /\ (InLoop ~> (dp.fn = "tlib_depends" /\ dp.pc = "done"))

\* a call has returned after an iteration that discovered something new and
\* one that discovered nothing
C39_Witness ==
    /\ dp.fn = "tlib_depends"
    /\ dp.pc = "done"
    /\ dp.iters >= 2
    /\ Cardinality(dp.newd) > 1
    /\ dp.oldd = dp.newd

=============================================================================
